---- MODULE Spec2Model ----
(***************************************************************************)
(* A model of the storage and transaction kernel of simpledb_rust:        *)
(* the log manager and its iterator, the buffer pool, the lock table and   *)
(* the per-transaction concurrency manager, the recovery manager and the   *)
(* Transaction API.  Page contents are modelled by the values stored at    *)
(* the offsets in use; log pages by the records they hold and the byte     *)
(* positions the code computes for them.  Page's accessors and FileMgr's   *)
(* block I/O are also modelled on their own, byte by byte.                 *)
(***************************************************************************)
EXTENDS Integers, Sequences, FiniteSets, TLC

(***************************************************************************)
(* Bounds of the model and parameters supplied by the host.                *)
(***************************************************************************)
\* FileMgr::blocksize, a construction parameter (bytes per block)
BlockSize == 64
\* number of LogMgr::append calls explored in the log manager specification
MaxAppends == 5
\* number of LogMgr::flush calls explored in the log manager specification
MaxFlushes == 2

\* number of transactions (threads of control)
NumTx == 2
\* number of blocks of the data file in use
NumBlocks == 3
\* number of frames of the buffer pool (BufferMgr::new's numbuffs)
NumBuffs == 2
\* the values written to pages are 1..MaxVal (a fresh block holds zeroes)
MaxVal == 1
\* number of BufferMgr calls and page modifications explored in the buffer
\* manager specification
MaxBufOps == 4
\* number of BufferMgr calls explored where the wait of pin is followed to its end
MaxWaitOps == 3
\* number of ConcurrencyMgr calls (s_lock, x_lock, release) explored in the
\* lock table specification, over all transactions
MaxLockOps == 5
MaxLockWaitOps == 4
\* number of Transaction calls (constructions included) explored before a
\* crash in the transaction specification, over all transactions
MaxTxOps == 5

\* mem::size_of::<i32>()
I32Size == 4
\* locktable.rs MAX_TIME: the lock deadline in milliseconds
LOCK_MAX_TIME == 10000
\* buffer/manager.rs MAX_TIME: the pin deadline in milliseconds
MAX_TIME == 10000
\* transaction.rs END_OF_FILE (u64::MAX, an all-ones sentinel): the number
\* carried by the dummy lock key of size() and append()
END_OF_FILE == -1
\* the length of the data file's name, "testfile", which every SETI32 record carries
FileNameLen == 8

\* thread::sleep(Duration::new(1, 0)): the sleep lasts one second or, when the
\* thread is scheduled late, longer (milliseconds)
SleepDurations == {1000, 1500}

Txs == 1..NumTx
Blocks == 0..(NumBlocks - 1)
Frames == 1..NumBuffs
\* the byte offsets of the i32 values read and written in data pages: one
\* slot per page is followed
Offsets == {40}
Vals == 0..MaxVal

\* payload lengths of the raw records appended in the log manager specification
RawLens == {4, 20, 28}

VARIABLES
    bufferpool,     \* BufferMgr.bufferpool: the frames
    num_available,  \* BufferMgr.num_available
    datafile,       \* the data file on disk: block -> page contents
    bpc,            \* the BufferMgr::pin call in progress (BufferMgr is used exclusively)
    bres,           \* the result of each thread's last BufferMgr call
    held,           \* the frame handles each client thread holds: frame -> number of pins
    nbufops,        \* history: number of buffer operations made so far
    walBad,         \* history: page writes made while the frame's log record was not on disk
    filelen,        \* the length of the data file in blocks
    nextTxNum,      \* NEXT_TX_NUM
    txs,            \* the Transaction of each thread: its state and its txnum
    mybuffers,      \* Transaction.mybuffers: BufferList.buffers (block -> frame, 0: no entry)
                    \* and BufferList.pins (block -> number of occurrences)
    tcall,          \* the last Transaction call of each thread and how it ended
    actor,          \* history: the thread that made the last Transaction call (0: none)
    lmMutex,        \* the Mutex around the LogMgr: "ok", "poisoned" or "stuck"
    bmMutex,        \* the Mutex around the BufferMgr
    ntxops,         \* history: number of Transaction calls made before the first crash
    epoch,          \* history: number of crashes so far
    created,        \* history: the txnums handed out since the process started
    txPinned,       \* history: pin calls less unpin calls of each transaction, per block
    txBefore,       \* history: the value each location held before the transaction
                    \* first modified it (-1: not modified)
    txWrote,        \* history: the last value the transaction wrote there (-1: none)
    committedVal,   \* history: the value last written there by a transaction that committed
    locks,      \* LockTable.locks: key -> count (0: no entry, -1: exclusive)
    ltMutex,    \* the thread inside a method of the shared LockTable (0: none)
    cmLocks,    \* ConcurrencyMgr.locks of each transaction: key -> "S", "X" ("N": no entry)
    lpc,        \* where each thread is in a ConcurrencyMgr call
    lres,       \* the result of each thread's last ConcurrencyMgr call
    nlockops,   \* history: number of ConcurrencyMgr calls made so far
    lm,         \* LogMgr: logpage, current_blk, latest_lsn, last_saved_lsn
    logfile,    \* the log file on disk: block n is logfile[n+1]
    appended,   \* history: every record appended, oldest first
    appendRet,  \* history: the value each append returned, oldest first
    nflush,     \* history: number of explicit flush calls made
    iter,       \* the LogIterator in use (or none)
    bb,         \* Page.bb of the page under study: its bytes
    bbBefore,   \* history: the bytes of that page before its last accessor call
    pagePc,     \* "none" (no page yet), "fresh", "set" (after a setter), "got" (after a getter)
    pageCall,   \* the last accessor call on the page, its arguments and its result
    pagePrevCall, \* history: the accessor call before that one
    fileBytes,  \* the bytes of the file the FileMgr under study reads and writes
    fileWritten,\* history: block number -> the page last written there (<<>>: never written)
    fmCall,     \* the last FileMgr call, the page it was given and the page it left
    nfileops,   \* history: number of FileMgr calls made so far
    recLogPage, \* the log page of the LogMgr that log records are written to on their own
    recWritten, \* history: the arguments of the last write_to_log (or none)
    recRead,    \* what create_log_record made of the bytes the iterator gave (or none)
    recPc,      \* "empty" (a new log), "written" (one record appended), "read"
    SINGLETON,  \* ConcurrencyMgr::new's static: the LockTable created once (0: None)
    tables,     \* the LockTable instances created so far, each its locks map
    cmTable,    \* ConcurrencyMgr.locktbl of each thread's manager (0: no manager yet)
    cmHeld,     \* ConcurrencyMgr.locks of each thread's manager
    cmLast,     \* the last ConcurrencyMgr call made on those managers, what the manager's
                \* map had for the key when the call began, and the call's result
    cmEof,      \* per thread and file: the lock its size/append calls got on the file's end
    ncmops,     \* history: number of such calls
    rmLog,      \* the records of a log that do_rollback and do_recover scan, oldest first
    rmCall      \* the last do_rollback or do_recover on that log: the record undo was called on

logVars == <<lm, logfile, appended, appendRet, nflush, iter>>
lockVars == <<locks, ltMutex, cmLocks, lpc, lres, nlockops>>
bufVars == <<bufferpool, num_available, datafile, bpc, bres, held, nbufops, walBad, filelen>>
txVars == <<nextTxNum, txs, mybuffers, tcall, actor, lmMutex, bmMutex, ntxops, epoch, created,
            txPinned, txBefore, txWrote, committedVal>>
pageVars == <<bb, bbBefore, pagePc, pageCall, pagePrevCall>>
fileVars == <<fileBytes, fileWritten, fmCall, nfileops>>
recVars == <<recLogPage, recWritten, recRead, recPc>>
cmVars == <<SINGLETON, tables, cmTable, cmHeld, cmLast, cmEof, ncmops>>
scanVars == <<rmLog, rmCall>>
ioVars == <<pageVars, fileVars, recVars, cmVars, scanVars>>
vars == <<bufVars, lockVars, logVars, txVars, ioVars>>
\* what the operations of one component leave alone
notLockVars == <<bufVars, logVars, txVars, ioVars>>
notLogVars == <<bufVars, lockVars, txVars, ioVars>>
notBufVars == <<lockVars, logVars, txVars, ioVars>>

(***************************************************************************)
(* Sequences                                                               *)
(***************************************************************************)
Reverse(s) == [i \in 1..Len(s) |-> s[Len(s) + 1 - i]]

Range(s) == {s[i] : i \in 1..Len(s)}

(***************************************************************************)
(* Log records and log pages                                               *)
(***************************************************************************)
\* A raw record as the log manager's test appends it: `len` payload bytes.
RawRec(id, len) ==
    [op |-> "RAW", id |-> id, len |-> len, tx |-> -1, blk |-> -1, off |-> -1, val |-> 0]

\* logrec.len(): the length in bytes of a record
RecLen(rec) == rec.len

\* Page::max_length
max_length(strlen) == I32Size + strlen

\* A log page: the boundary word at offset 0 and the length-prefixed records
\* written into it, each at the byte position where its prefix starts.
EmptyLogPage == [boundary |-> BlockSize, ents |-> {}]

\* Bytes [pos, pos+n) overlap the entry e (its prefix and payload).
Overlaps(e, pos, n) == e.pos < pos + n /\ pos < e.pos + I32Size + RecLen(e.rec)

\* Page::set(recpos, bytes) on a log page: the length prefix and the record are
\* written at recpos; whatever those bytes held before is overwritten.
PageSetBytes(p, recpos, rec) ==
    [p EXCEPT !.ents = {e \in p.ents : ~Overlaps(e, recpos, I32Size + RecLen(rec))}
                           \cup {[pos |-> recpos, rec |-> rec]}]

\* Page::set(0, n): the boundary word; a record lying over bytes 0..3 is overwritten
PageSetBoundary(p, n) ==
    [p EXCEPT !.boundary = n, !.ents = {e \in p.ents : ~Overlaps(e, 0, I32Size)}]

\* FileMgr::write on the log file
FileWrite(f, blk, p) == [f EXCEPT ![blk + 1] = p]

\* LogMgr::flush_to_fm
flush_to_fm(s) ==
    [lm |-> [s.lm EXCEPT !.last_saved_lsn = s.lm.latest_lsn],
     file |-> FileWrite(s.file, s.lm.current_blk, s.lm.logpage)]

\* LogMgr::append_newblk: the file grows by one block, the page's boundary is
\* reset (its other bytes stay) and the page is written to the new block.
append_newblk(s) ==
    LET blk == Len(s.file)
        page == PageSetBoundary(s.lm.logpage, BlockSize)
    IN  [lm |-> [s.lm EXCEPT !.logpage = page, !.current_blk = blk],
         file |-> Append(s.file, page)]

\* The comparison of LogMgr::flush
FlushNeeded(lsn, last_saved_lsn) == lsn > last_saved_lsn

\* LogMgr::flush
flush(s, lsn) == IF FlushNeeded(lsn, s.lm.last_saved_lsn) THEN flush_to_fm(s) ELSE s

\* The condition of LogMgr::append under which the record goes to a new block
NoRoom(boundary, bytes_needed) == boundary - bytes_needed < I32Size

\* What LogMgr::append returns
AppendResult(l) == l.last_saved_lsn

\* LogMgr::append: the state after it and the value returned
append(s, rec) ==
    LET bytes_needed == RecLen(rec) + I32Size
        s1 == IF NoRoom(s.lm.logpage.boundary, bytes_needed)
              THEN append_newblk(flush_to_fm(s)) ELSE s
        recpos == s1.lm.logpage.boundary - bytes_needed
        page == PageSetBoundary(PageSetBytes(s1.lm.logpage, recpos, rec), recpos)
        l2 == [s1.lm EXCEPT !.logpage = page, !.latest_lsn = @ + 1]
    IN  [lm |-> l2, file |-> s1.file, ret |-> AppendResult(l2)]

\* LogMgr::new on an empty log file
NewLogMgr ==
    [logpage |-> EmptyLogPage, current_blk |-> 0, latest_lsn |-> 0, last_saved_lsn |-> 0]

LogState == [lm |-> lm, file |-> logfile]

(***************************************************************************)
(* LogIterator                                                             *)
(***************************************************************************)
NoIter ==
    [active |-> FALSE, blk |-> 0, p |-> EmptyLogPage, current_pos |-> BlockSize,
     out |-> <<>>, done |-> TRUE, snap |-> <<>>]

\* LogIterator::new: the block is read from the file
NewIterator(f, blk, snap) ==
    [active |-> TRUE, blk |-> blk, p |-> f[blk + 1], current_pos |-> f[blk + 1].boundary,
     out |-> <<>>, done |-> FALSE, snap |-> snap]

has_next_first_block_only(it) == it.current_pos < BlockSize

\* LogIterator::has_next
has_next(it) == it.current_pos < BlockSize \/ it.blk > 0

\* Page::get_bytes_vec at a position of a log page: the record whose prefix
\* starts there, if one does
EntryAt(p, pos) == {e \in p.ents : e.pos = pos}

\* A next that goes on, when its page is used up, with the block before the
\* last block the log file has at that moment
next_from_last_block(it, f) ==
    IF ~has_next(it) THEN [it EXCEPT !.done = TRUE]
    ELSE LET it1 == IF it.current_pos = BlockSize
                    THEN [it EXCEPT !.blk = Len(f) - 2, !.p = f[Len(f) - 1],
                                    !.current_pos = f[Len(f) - 1].boundary]
                    ELSE it
             es == EntryAt(it1.p, it1.current_pos)
         IN  IF es = {} THEN [it1 EXCEPT !.done = TRUE]
             ELSE LET e == CHOOSE x \in es : TRUE
                  IN  [it1 EXCEPT !.current_pos = @ + I32Size + RecLen(e.rec),
                                  !.out = Append(@, e.rec)]

\* LogIterator::next: the iterator after the call; `done` once it returned None
next(it, f) ==
    IF ~has_next(it) THEN [it EXCEPT !.done = TRUE]
    ELSE LET it1 == IF it.current_pos = BlockSize
                    THEN [it EXCEPT !.blk = @ - 1, !.p = f[it.blk],
                                    !.current_pos = f[it.blk].boundary]
                    ELSE it
             es == EntryAt(it1.p, it1.current_pos)
         IN  IF es = {} THEN [it1 EXCEPT !.done = TRUE]
             ELSE LET e == CHOOSE x \in es : TRUE
                  IN  [it1 EXCEPT !.current_pos = @ + I32Size + RecLen(e.rec),
                                  !.out = Append(@, e.rec)]

(***************************************************************************)
(* Buffer and BufferMgr                                                    *)
(***************************************************************************)
\* Page::new_from_size: a page of zeroes
ZeroPage == [o \in Offsets |-> 0]

\* Buffer::new. blk = -1 stands for None; lastRec (history) is the id of the
\* log record of the frame's latest logged modification, 0 when it has none.
NewBuffer ==
    [blk |-> -1, pins |-> 0, txnum |-> -1, lsn |-> -1, contents |-> ZeroPage, lastRec |-> 0]

\* An is_pinned that takes every frame for unpinned
is_pinned_never(buff) == FALSE

\* Buffer::is_pinned
is_pinned(buff) == buff.pins > 0

\* A set_modified that stores whatever lsn it is given
set_modified_storing_any_lsn(buff, txnum, lsn) ==
    [buff EXCEPT !.txnum = txnum, !.lsn = lsn]

\* Buffer::set_modified
set_modified(buff, txnum, lsn) ==
    [buff EXCEPT !.txnum = txnum, !.lsn = IF lsn >= 0 THEN lsn ELSE @]

\* `self.lsn as u64` in Buffer::flush: a negative lsn becomes a number above
\* every LSN (the top of the integer range here)
lsn_as_u64(lsn) == IF lsn >= 0 THEN lsn ELSE 2147483647 + lsn + 1

\* The log records that are in the log file: those at or above the boundary
\* of a block of the file
OnDisk(f) == {e.rec.id : e \in UNION {{x \in f[i].ents : x.pos >= f[i].boundary} : i \in 1..Len(f)}}

\* The state the buffer operations act on: the pool, the log manager with its
\* file, and the data file.
Sys ==
    [pool |-> bufferpool, num_available |-> num_available, lm |-> lm, file |-> logfile,
     data |-> datafile, flen |-> filelen, walBad |-> walBad, ok |-> TRUE]

\* The length of the file once block blk has been written: FileMgr::write past
\* the end of the file, and FileMgr::read of a block the file does not hold
\* (it writes the missing bytes as zeroes), make the file longer.
Extended(flen, blk) == IF blk + 1 > flen THEN blk + 1 ELSE flen

\* Buffer::flush of frame i
buffer_flush(w, i) ==
    LET buff == w.pool[i]
    IN  IF buff.txnum >= 0
        THEN LET l == flush([lm |-> w.lm, file |-> w.file], lsn_as_u64(buff.lsn))
             IN  IF buff.blk = -1
                 THEN [w EXCEPT !.lm = l.lm, !.file = l.file, !.ok = FALSE]
                 ELSE [w EXCEPT !.lm = l.lm, !.file = l.file,
                                !.data[buff.blk] = buff.contents,
                                !.flen = Extended(@, buff.blk),
                                !.pool[i].txnum = -1,
                                !.walBad = IF buff.lastRec = 0 \/ buff.lastRec \in OnDisk(l.file)
                                           THEN @
                                           ELSE @ \cup {[blk |-> buff.blk, rec |-> buff.lastRec]}]
        ELSE w

\* An assign_to_block that does not flush the frame first
assign_to_block_without_flush(w, i, b) ==
    [w EXCEPT !.pool[i].contents = w.data[b], !.flen = Extended(@, b),
              !.pool[i].blk = b, !.pool[i].pins = 0, !.pool[i].lastRec = 0,
              !.pool[i].txnum = -1]

\* Buffer::assign_to_block
assign_to_block(w, i, b) ==
    LET w1 == buffer_flush(w, i)
    IN  IF ~w1.ok THEN w1
        ELSE [w1 EXCEPT !.pool[i].contents = w1.data[b], !.flen = Extended(@, b),
                        !.pool[i].blk = b, !.pool[i].pins = 0, !.pool[i].lastRec = 0]

\* A lookup that never finds the block in the pool
find_no_buffer(pool, blk) == 0

\* BufferMgr::find_existing_buffer: the first frame holding blk, 0 if none
find_existing_buffer(pool, blk) ==
    LET S == {i \in Frames : pool[i].blk = blk}
    IN  IF S = {} THEN 0 ELSE CHOOSE i \in S : \A j \in S : i <= j

\* A replacement policy that takes the first frame when every frame is pinned
choose_unpinned_else_first(pool) ==
    LET S == {i \in Frames : ~is_pinned(pool[i])}
    IN  IF S = {} THEN 1 ELSE CHOOSE i \in S : \A j \in S : i <= j

\* BufferMgr::choose_unpinned_buffer: the first frame that is not pinned, 0 if none
choose_unpinned_buffer(pool) ==
    LET S == {i \in Frames : ~is_pinned(pool[i])}
    IN  IF S = {} THEN 0 ELSE CHOOSE i \in S : \A j \in S : i <= j

\* A pickup_pinnable_buffer that does not look for a frame holding the block
pickup_without_lookup(w, blk) ==
    LET c == choose_unpinned_buffer(w.pool)
    IN  IF c = 0 THEN [w |-> w, frame |-> 0]
        ELSE LET w1 == assign_to_block(w, c, blk)
             IN  IF w1.ok THEN [w |-> w1, frame |-> c]
                 ELSE [w |-> [w1 EXCEPT !.ok = TRUE], frame |-> 0]

\* BufferMgr::pickup_pinnable_buffer: the state after it and the frame picked
\* (0 for None)
pickup_pinnable_buffer(w, blk) ==
    LET e == find_existing_buffer(w.pool, blk)
    IN  IF e # 0 THEN [w |-> w, frame |-> e]
        ELSE LET c == choose_unpinned_buffer(w.pool)
             IN  IF c = 0 THEN [w |-> w, frame |-> 0]
                 ELSE LET w1 == assign_to_block(w, c, blk)
                      IN  IF w1.ok THEN [w |-> w1, frame |-> c]
                          ELSE [w |-> [w1 EXCEPT !.ok = TRUE], frame |-> 0]

\* BufferMgr::try_to_pin: the state after it and the frame pinned (0: Err)
try_to_pin(w, blk) ==
    LET r == pickup_pinnable_buffer(w, blk)
        i == r.frame
    IN  IF i = 0 THEN r
        ELSE [w |-> [r.w EXCEPT !.num_available = IF is_pinned(r.w.pool[i]) THEN @ ELSE @ - 1,
                                !.pool[i].pins = @ + 1],
              frame |-> i]

\* An unpin that counts the frame as available whatever its pin count
bm_unpin_counting_always(w, i) ==
    [w EXCEPT !.pool[i].pins = @ - 1, !.num_available = @ + 1]

\* BufferMgr::unpin
bm_unpin(w, i) ==
    [w EXCEPT !.pool[i].pins = @ - 1,
              !.num_available = IF w.pool[i].pins - 1 > 0 THEN @ ELSE @ + 1]

\* BufferMgr::flush_all: the frames modified by txnum are flushed in pool order
RECURSIVE flush_from(_, _, _)
flush_from(w, txnum, i) ==
    IF i > NumBuffs \/ ~w.ok THEN w
    ELSE flush_from(IF w.pool[i].txnum = txnum THEN buffer_flush(w, i) ELSE w, txnum, i + 1)

\* What BufferMgr::flush_all returns once its loop has ended without an error:
\* the function's last expression
flush_all_result == "LockFailed"

flush_all(w, txnum) == flush_from(w, txnum, 1)

\* waiting_too_long of buffer/manager.rs
waiting_too_long(elapsed) == elapsed > MAX_TIME

\* Every frame is pinned and no frame holds blk
Saturated(blk) ==
    /\ \A i \in Frames : is_pinned(bufferpool[i])
    /\ \A i \in Frames : bufferpool[i].blk # blk

\* sat (history): every frame was pinned and none held blk when pin was called
NoPin == [op |-> "idle", t |-> 0, blk |-> 0, elapsed |-> 0, sat |-> FALSE]

BufInit ==
    /\ bufferpool = [i \in Frames |-> NewBuffer]
    /\ num_available = NumBuffs
    /\ datafile = [b \in Blocks |-> ZeroPage]
    /\ bpc = NoPin
    /\ bres = [t \in Txs |-> "none"]
    /\ held = [t \in Txs |-> [i \in Frames |-> 0]]
    /\ nbufops = 0
    /\ walBad = {}
    /\ filelen = 0

\* The variables take the state w
SetSys(w) ==
    /\ bufferpool' = w.pool
    /\ num_available' = w.num_available
    /\ datafile' = w.data
    /\ walBad' = w.walBad
    /\ filelen' = w.flen
    /\ lm' = w.lm
    /\ logfile' = w.file

notSysVars == <<lockVars, txVars, appended, appendRet, nflush, iter, ioVars>>

\* BufferMgr::pin is called: the timestamp is taken
BmPin(t, blk) ==
    /\ bpc.op = "idle" /\ nbufops < MaxBufOps
    /\ bpc' = [op |-> "pin", t |-> t, blk |-> blk, elapsed |-> 0, sat |-> Saturated(blk)]
    /\ bres' = [bres EXCEPT ![t] = "none"]
    /\ nbufops' = nbufops + 1
    /\ UNCHANGED <<bufferpool, num_available, datafile, held, walBad, filelen>>
    /\ UNCHANGED notBufVars

\* One pass of the loop of BufferMgr::pin: try_to_pin gives the frame, or the
\* thread sleeps
BmPinTry ==
    /\ bpc.op = "pin" /\ ~waiting_too_long(bpc.elapsed)
    /\ LET r == try_to_pin(Sys, bpc.blk)
       IN  IF r.frame # 0
           THEN /\ SetSys(r.w)
                /\ held' = [held EXCEPT ![bpc.t][r.frame] = @ + 1]
                /\ bres' = [bres EXCEPT ![bpc.t] = "Ok"]
                /\ bpc' = [bpc EXCEPT !.op = "idle"]
           ELSE /\ SetSys(r.w)
                /\ \E d \in SleepDurations : bpc' = [bpc EXCEPT !.elapsed = @ + d]
                /\ UNCHANGED <<held, bres>>
    /\ UNCHANGED <<nbufops, notSysVars>>

\* The loop of BufferMgr::pin ends on the deadline: BufferAbort
BmPinAbort ==
    /\ bpc.op = "pin" /\ waiting_too_long(bpc.elapsed)
    /\ bres' = [bres EXCEPT ![bpc.t] = "BufferAbort"]
    /\ bpc' = [bpc EXCEPT !.op = "idle"]
    /\ UNCHANGED <<bufferpool, num_available, datafile, held, nbufops, walBad, filelen>>
    /\ UNCHANGED notBufVars

\* BufferMgr::unpin of a frame the thread has pinned
BmUnpin(t, i) ==
    /\ bpc.op = "idle" /\ nbufops < MaxBufOps
    /\ held[t][i] > 0
    /\ SetSys(bm_unpin(Sys, i))
    /\ held' = [held EXCEPT ![t][i] = @ - 1]
    /\ bres' = [bres EXCEPT ![t] = "Ok"]
    /\ nbufops' = nbufops + 1
    /\ UNCHANGED <<bpc, notSysVars>>

\* A thread writes a value into a frame it has pinned and marks the frame
\* modified, as buffer_test does: p.set(offset, v); set_modified(txnum, 0)
BufModify(t, i, o, v) ==
    /\ nbufops < MaxBufOps
    /\ held[t][i] > 0
    /\ bufferpool' = [bufferpool EXCEPT
                        ![i] = set_modified([@ EXCEPT !.contents[o] = v], t, 0)]
    /\ nbufops' = nbufops + 1
    /\ UNCHANGED <<num_available, datafile, bpc, bres, held, walBad, filelen>>
    /\ UNCHANGED notBufVars

\* BufferMgr::flush_all(txnum)
BmFlushAll(t) ==
    /\ bpc.op = "idle" /\ nbufops < MaxBufOps
    /\ LET w == flush_all(Sys, t)
       IN  /\ SetSys(w)
           /\ bres' = [bres EXCEPT ![t] = IF w.ok THEN flush_all_result ELSE "BlockNotFound"]
    /\ nbufops' = nbufops + 1
    /\ UNCHANGED <<bpc, held, notSysVars>>

(***************************************************************************)
(* LockTable                                                               *)
(***************************************************************************)
\* LockTableKey
BID(b) == [kind |-> "BID", n |-> b]

DUMMY(n) == [kind |-> "DUMMY", n |-> n]

Keys == {BID(b) : b \in Blocks} \cup {DUMMY(END_OF_FILE)}

\* get_lock_val: the entry of a key, 0 when it has none
get_lock_val(lk, key) == lk[key]

\* has_x_lock
has_x_lock(lk, key) == get_lock_val(lk, key) < 0

has_other_s_locks_off_by_one(lk, key) == get_lock_val(lk, key) > 2

\* has_other_s_locks
has_other_s_locks(lk, key) == get_lock_val(lk, key) > 1

\* LockTable::s_lock, the granting branch: *locks.entry(key).or_insert(0) += 1
s_lock_grant(lk, key) == [lk EXCEPT ![key] = @ + 1]

\* LockTable::x_lock, the granting branch: *locks.entry(key).or_insert(-1) = -1
x_lock_grant(lk, key) == [lk EXCEPT ![key] = -1]

\* LockTable::unlock: or_insert leaves an entry that exists as it is
unlock(lk, key) ==
    IF get_lock_val(lk, key) > 1 THEN lk ELSE [lk EXCEPT ![key] = 0]

\* A deadline that has passed as soon as the thread has slept once
lock_waiting_too_long_after_one_sleep(elapsed) == elapsed > 0

\* waiting_too_long of locktable.rs, on the milliseconds elapsed since the
\* timestamp was taken
lock_waiting_too_long(elapsed) == elapsed > LOCK_MAX_TIME

(***************************************************************************)
(* ConcurrencyMgr, one per transaction, on the shared LockTable            *)
(***************************************************************************)
Idle == [op |-> "idle", key |-> DUMMY(END_OF_FILE), elapsed |-> 0, forX |-> FALSE, rem |-> {}]

\* ConcurrencyMgr::has_x_lock
cm_has_x_lock(t, key) == cmLocks[t][key] = "X"

\* The keys transaction t holds: those its ConcurrencyMgr records, less those a
\* release() in progress has already unlocked.
Holds(t, key) ==
    /\ cmLocks[t][key] # "N"
    /\ lpc[t].op = "release" => key \in lpc[t].rem

HoldsX(t, key) == Holds(t, key) /\ cmLocks[t][key] = "X"

LockInit ==
    /\ locks = [k \in Keys |-> 0]
    /\ ltMutex = 0
    /\ cmLocks = [t \in Txs |-> [k \in Keys |-> "N"]]
    /\ lpc = [t \in Txs |-> Idle]
    /\ lres = [t \in Txs |-> "none"]
    /\ nlockops = 0

\* ConcurrencyMgr::s_lock is called: nothing to do when the key is recorded,
\* else the shared table is locked and LockTable::s_lock starts its loop.
CmSLock(t, key) ==
    /\ UNCHANGED notLockVars
    /\ lpc[t].op = "idle" /\ nlockops < MaxLockOps
    /\ nlockops' = nlockops + 1
    /\ IF cmLocks[t][key] # "N"
       THEN /\ lres' = [lres EXCEPT ![t] = "Ok"]
            /\ UNCHANGED <<locks, ltMutex, cmLocks, lpc>>
       ELSE /\ ltMutex = 0
            /\ ltMutex' = t
            /\ lpc' = [lpc EXCEPT ![t] = [Idle EXCEPT !.op = "s_lock", !.key = key]]
            /\ lres' = [lres EXCEPT ![t] = "none"]
            /\ UNCHANGED <<locks, cmLocks>>

\* ConcurrencyMgr::x_lock is called: nothing to do when X is recorded; else
\* self.s_lock(key) first (skipped inside when the key is recorded).
CmXLock(t, key) ==
    /\ UNCHANGED notLockVars
    /\ lpc[t].op = "idle" /\ nlockops < MaxLockOps
    /\ nlockops' = nlockops + 1
    /\ IF cm_has_x_lock(t, key)
       THEN /\ lres' = [lres EXCEPT ![t] = "Ok"]
            /\ UNCHANGED <<locks, ltMutex, cmLocks, lpc>>
       ELSE /\ lres' = [lres EXCEPT ![t] = "none"]
            /\ IF cmLocks[t][key] # "N"
               THEN /\ lpc' = [lpc EXCEPT ![t] = [Idle EXCEPT !.op = "x_enter", !.key = key]]
                    /\ UNCHANGED <<locks, ltMutex, cmLocks>>
               ELSE /\ ltMutex = 0
                    /\ ltMutex' = t
                    /\ lpc' = [lpc EXCEPT ![t] = [Idle EXCEPT !.op = "s_lock", !.key = key,
                                                              !.forX = TRUE]]
                    /\ UNCHANGED <<locks, cmLocks>>

\* One pass of the loop of LockTable::s_lock: the lock is granted, or the
\* thread sleeps. On Ok the ConcurrencyMgr records "S".
LtSLockTry(t) ==
    /\ UNCHANGED notLockVars
    /\ lpc[t].op = "s_lock" /\ ~lock_waiting_too_long(lpc[t].elapsed)
    /\ LET key == lpc[t].key
       IN  IF ~has_x_lock(locks, key)
           THEN /\ locks' = s_lock_grant(locks, key)
                /\ ltMutex' = 0
                /\ cmLocks' = [cmLocks EXCEPT ![t][key] = "S"]
                /\ IF lpc[t].forX
                   THEN /\ lpc' = [lpc EXCEPT ![t] = [Idle EXCEPT !.op = "x_enter", !.key = key]]
                        /\ UNCHANGED lres
                   ELSE /\ lpc' = [lpc EXCEPT ![t] = Idle]
                        /\ lres' = [lres EXCEPT ![t] = "Ok"]
           ELSE /\ \E d \in SleepDurations :
                     lpc' = [lpc EXCEPT ![t].elapsed = @ + d]
                /\ UNCHANGED <<locks, ltMutex, cmLocks, lres>>
    /\ UNCHANGED nlockops

\* ConcurrencyMgr::x_lock locks the shared table for LockTable::x_lock
CmXEnter(t) ==
    /\ UNCHANGED notLockVars
    /\ lpc[t].op = "x_enter" /\ ltMutex = 0
    /\ ltMutex' = t
    /\ lpc' = [lpc EXCEPT ![t].op = "x_lock", ![t].elapsed = 0]
    /\ UNCHANGED <<locks, cmLocks, lres, nlockops>>

\* One pass of the loop of LockTable::x_lock. On Ok the ConcurrencyMgr records "X".
LtXLockTry(t) ==
    /\ UNCHANGED notLockVars
    /\ lpc[t].op = "x_lock" /\ ~lock_waiting_too_long(lpc[t].elapsed)
    /\ LET key == lpc[t].key
       IN  IF ~has_other_s_locks(locks, key)
           THEN /\ locks' = x_lock_grant(locks, key)
                /\ ltMutex' = 0
                /\ cmLocks' = [cmLocks EXCEPT ![t][key] = "X"]
                /\ lpc' = [lpc EXCEPT ![t] = Idle]
                /\ lres' = [lres EXCEPT ![t] = "Ok"]
           ELSE /\ \E d \in SleepDurations :
                     lpc' = [lpc EXCEPT ![t].elapsed = @ + d]
                /\ UNCHANGED <<locks, ltMutex, cmLocks, lres>>
    /\ UNCHANGED nlockops

\* The loop of s_lock or x_lock ends on the deadline: LockAbort
LtAbort(t) ==
    /\ UNCHANGED notLockVars
    /\ lpc[t].op \in {"s_lock", "x_lock"} /\ lock_waiting_too_long(lpc[t].elapsed)
    /\ ltMutex' = 0
    /\ lpc' = [lpc EXCEPT ![t] = [Idle EXCEPT !.key = lpc[t].key]]
    /\ lres' = [lres EXCEPT ![t] = "LockAbort"]
    /\ UNCHANGED <<locks, cmLocks, nlockops>>

\* ConcurrencyMgr::release is called
CmRelease(t) ==
    /\ UNCHANGED notLockVars
    /\ lpc[t].op = "idle" /\ nlockops < MaxLockOps
    /\ nlockops' = nlockops + 1
    /\ lpc' = [lpc EXCEPT ![t] = [Idle EXCEPT !.op = "release",
                                             !.rem = {k \in Keys : cmLocks[t][k] # "N"}]]
    /\ lres' = [lres EXCEPT ![t] = "none"]
    /\ UNCHANGED <<locks, ltMutex, cmLocks>>

\* release: the next key of the map is unlocked in the shared table
CmReleaseKey(t) ==
    /\ UNCHANGED notLockVars
    /\ lpc[t].op = "release" /\ ltMutex = 0
    /\ \E key \in lpc[t].rem :
         /\ locks' = unlock(locks, key)
         /\ lpc' = [lpc EXCEPT ![t].rem = @ \ {key}]
    /\ UNCHANGED <<ltMutex, cmLocks, lres, nlockops>>

\* release: every key is unlocked, the map is cleared
CmReleaseDone(t) ==
    /\ UNCHANGED notLockVars
    /\ lpc[t].op = "release" /\ lpc[t].rem = {}
    /\ cmLocks' = [cmLocks EXCEPT ![t] = [k \in Keys |-> "N"]]
    /\ lpc' = [lpc EXCEPT ![t] = Idle]
    /\ lres' = [lres EXCEPT ![t] = "Ok"]
    /\ UNCHANGED <<locks, ltMutex, nlockops>>

(***************************************************************************)
(* Log records of the recovery manager                                     *)
(***************************************************************************)
\* reclen of the write_to_log functions of logrecord.rs
reclen(op) ==
    CASE op = "CHECKPOINT" -> I32Size
      [] op \in {"START", "COMMIT", "ROLLBACK"} -> I32Size + I32Size
      [] op = "SETI32" ->
            I32Size + I32Size + max_length(FileNameLen) + I32Size + I32Size + I32Size

\* A record of the recovery manager; id (history) numbers the appends
LogRec(op, id, tx, blk, off, val) ==
    [op |-> op, id |-> id, len |-> reclen(op), tx |-> tx, blk |-> blk, off |-> off, val |-> val]

\* LogMgr::new on a log file that holds blocks: the last block is read into
\* the log page and both LSN counters start at 0
LogMgrOn(f) ==
    [logpage |-> f[Len(f)], current_blk |-> Len(f) - 1, latest_lsn |-> 0, last_saved_lsn |-> 0]

RECURSIVE IterRun(_, _)
\* for bytes in iter: the records the iterator yields until next() returns None
IterRun(it, f) == IF it.done THEN it.out ELSE IterRun(next(it, f), f)

(***************************************************************************)
(* Transaction, BufferList and RecoveryMgr.                                *)
(*                                                                         *)
(* Transaction::new stores None in recovery_mgr and nothing in the         *)
(* repository stores anything else, so every call that reaches             *)
(* recovery_mgr.as_ref().unwrap() would stop there with a panic.  The      *)
(* model follows those calls into the RecoveryMgr that RecoveryMgr::new    *)
(* builds for the transaction's txnum over the same LogMgr and BufferMgr,  *)
(* the arrangement the calls are written for.  LogMgr and BufferMgr are    *)
(* behind Arc<Mutex<..>> as in transaction.rs and recovery/manager.rs.     *)
(*                                                                         *)
(* A call is one step.  A thread that waits inside BufferMgr::pin or       *)
(* LockTable::s_lock/x_lock holds the mutex around that manager for the    *)
(* whole wait, so nothing it waits for can change and the wait ends in     *)
(* BufferAbort or LockAbort.                                               *)
(***************************************************************************)
\* The state the Transaction operations act on
TxWorld ==
    [pool |-> bufferpool, num_available |-> num_available, lm |-> lm, file |-> logfile,
     data |-> datafile, flen |-> filelen, walBad |-> walBad, ok |-> TRUE,
     locks |-> locks, cm |-> cmLocks, appended |-> appended, appendRet |-> appendRet,
     nextTxNum |-> nextTxNum, txs |-> txs, mybuffers |-> mybuffers, tcall |-> tcall,
     lmMutex |-> lmMutex, bmMutex |-> bmMutex, created |-> created, txPinned |-> txPinned,
     txBefore |-> txBefore, txWrote |-> txWrote, committedVal |-> committedVal]

NoCall == [op |-> "none", res |-> "none", val |-> 0]

\* No Transaction in the thread
NoTx == [st |-> "none", txnum |-> 0, unlogged |-> FALSE]

\* BufferList::new
NewBufferList == [buffers |-> [b \in Blocks |-> 0], pins |-> [b \in Blocks |-> 0]]

Unmodified == [b \in Blocks |-> [o \in Offsets |-> -1]]

\* mutex.lock().unwrap(): the caller goes on, panics on a poisoned mutex, or
\* blocks on a mutex whose holder is stuck
Gate(m) == IF m = "ok" THEN "go" ELSE IF m = "poisoned" THEN "panic" ELSE "hang"

\* What std::sync::Mutex::lock may do in a thread that already holds the mutex
Relock == {"panic", "hang"}

\* The call op of thread s returns res
Ret(w, s, op, res, val) ==
    [w EXCEPT !.tcall[s] = [op |-> op, res |-> res, val |-> val], !.ok = TRUE]

\* The call op of thread s does not return: the thread panics or blocks for
\* ever. A mutex whose guard it holds is poisoned by the panic, or stays locked.
Fail(w, s, op, how, lmHeld, bmHeld) ==
    LET m == IF how = "panic" THEN "poisoned" ELSE "stuck"
    IN  [w EXCEPT !.tcall[s] = [op |-> op, res |-> how, val |-> 0],
                  !.txs[s].st = IF how = "panic" THEN "dead" ELSE "hung",
                  !.lmMutex = IF lmHeld THEN m ELSE @,
                  !.bmMutex = IF bmHeld THEN m ELSE @,
                  !.ok = TRUE]

\* An s_lock that is granted although another transaction holds the X lock
cm_s_lock_over_x_lock(w, t, key) ==
    IF w.cm[t][key] # "N" THEN w
    ELSE [w EXCEPT !.locks = IF has_x_lock(@, key) THEN @ ELSE s_lock_grant(@, key),
                   !.cm[t][key] = "S"]

\* ConcurrencyMgr::s_lock with LockTable::s_lock; ok is FALSE on LockAbort
cm_s_lock(w, t, key) ==
    IF w.cm[t][key] # "N" THEN w
    ELSE IF ~has_x_lock(w.locks, key)
         THEN [w EXCEPT !.locks = s_lock_grant(@, key), !.cm[t][key] = "S"]
         ELSE [w EXCEPT !.ok = FALSE]

\* An x_lock that gives up the S lock it took when the X lock is refused
cm_x_lock_giving_up(w, t, key) ==
    IF w.cm[t][key] = "X" THEN w
    ELSE LET w1 == cm_s_lock(w, t, key)
         IN  IF ~w1.ok THEN w1
             ELSE IF ~has_other_s_locks(w1.locks, key)
                  THEN [w1 EXCEPT !.locks = x_lock_grant(@, key), !.cm[t][key] = "X"]
                  ELSE [w1 EXCEPT !.locks[key] = @ - 1, !.cm[t][key] = "N", !.ok = FALSE]

\* ConcurrencyMgr::x_lock with LockTable::x_lock
cm_x_lock(w, t, key) ==
    IF w.cm[t][key] = "X" THEN w
    ELSE LET w1 == cm_s_lock(w, t, key)
         IN  IF ~w1.ok THEN w1
             ELSE IF ~has_other_s_locks(w1.locks, key)
                  THEN [w1 EXCEPT !.locks = x_lock_grant(@, key), !.cm[t][key] = "X"]
                  ELSE [w1 EXCEPT !.ok = FALSE]

\* write_to_log of a record type: the record is appended; lsn is what append returned
write_to_log(w, op, tx, blk, off, val) ==
    LET rec == LogRec(op, Len(w.appended) + 1, tx, blk, off, val)
        r == append([lm |-> w.lm, file |-> w.file], rec)
    IN  [w |-> [w EXCEPT !.lm = r.lm, !.file = r.file,
                         !.appended = Append(@, rec), !.appendRet = Append(@, r.ret)],
         lsn |-> r.ret, id |-> rec.id]

next_tx_number_unchanged(n) == n

\* Transaction::next_tx_number: the counter is incremented under its mutex and
\* the incremented value returned
next_tx_number(n) == n + 1

\* Transaction::new and RecoveryMgr::new, which writes the START record
tx_new(w, s) ==
    LET n == next_tx_number(w.nextTxNum)
        w1 == [w EXCEPT !.nextTxNum = n, !.created = Append(@, n),
                        !.txs[s] = [st |-> "active", txnum |-> n, unlogged |-> FALSE]]
    IN  IF Gate(w.lmMutex) # "go" THEN Fail(w1, s, "new", Gate(w.lmMutex), FALSE, FALSE)
        ELSE Ret(write_to_log(w1, "START", n, -1, -1, 0).w, s, "new", "Ok", n)

\* Buffer::flush locks the LogMgr when the frame is modified: whether
\* BufferMgr::pin of blk gets that far
PinFlushes(w, blk) ==
    /\ find_existing_buffer(w.pool, blk) = 0
    /\ choose_unpinned_buffer(w.pool) # 0
    /\ w.pool[choose_unpinned_buffer(w.pool)].txnum >= 0

\* Transaction::pin, BufferList::pin
tx_pin(w, s, blk) ==
    IF Gate(w.bmMutex) # "go" THEN Fail(w, s, "pin", Gate(w.bmMutex), FALSE, FALSE)
    ELSE IF PinFlushes(w, blk) /\ Gate(w.lmMutex) # "go"
    THEN Fail(w, s, "pin", Gate(w.lmMutex), FALSE, TRUE)
    ELSE LET r == try_to_pin(w, blk)
         IN  IF r.frame = 0 THEN Ret(r.w, s, "pin", "BufferAbort", 0)
             ELSE Ret([r.w EXCEPT !.mybuffers[s].buffers[blk] = r.frame,
                                  !.mybuffers[s].pins[blk] = @ + 1,
                                  !.txPinned[s][blk] = @ + 1],
                      s, "pin", "Ok", 0)

\* pins.retain(|x| x == blk)
retain(pins, blk) == [b \in Blocks |-> IF b = blk THEN pins[b] ELSE 0]

\* Transaction::unpin, BufferList::unpin
tx_unpin(w, s, blk) ==
    LET i == w.mybuffers[s].buffers[blk]
        w0 == [w EXCEPT !.txPinned[s][blk] = @ - 1]
    IN  IF i = 0 THEN Ret(w0, s, "unpin", "Ok", 0)
        ELSE IF Gate(w.bmMutex) # "go" THEN Fail(w0, s, "unpin", Gate(w.bmMutex), FALSE, FALSE)
        ELSE LET w1 == bm_unpin(w0, i)
                 kept == retain(w1.mybuffers[s].pins, blk)
             IN  Ret([w1 EXCEPT !.mybuffers[s].pins = kept,
                                !.mybuffers[s].buffers[blk] = IF kept[blk] > 0 THEN 0 ELSE @],
                     s, "unpin", "Ok", 0)

\* Transaction::get_i32
tx_get_i32(w, s, blk, off) ==
    LET w1 == cm_s_lock(w, s, BID(blk))
        i == w.mybuffers[s].buffers[blk]
    IN  IF ~w1.ok THEN Ret(w1, s, "get_i32", "LockAbort", 0)
        ELSE IF i = 0 THEN Fail(w1, s, "get_i32", "panic", FALSE, FALSE)
        ELSE Ret(w1, s, "get_i32", "Ok", w1.pool[i].contents[off])

\* A RecoveryMgr::set_i32 that logs the value about to be written
rm_set_i32_logging_new_val(w, txnum, i, off, new_val) ==
    write_to_log(w, "SETI32", txnum, w.pool[i].blk, off, new_val)

\* RecoveryMgr::set_i32: the value the page holds is logged, _new_val is not used
rm_set_i32(w, txnum, i, off, new_val) ==
    write_to_log(w, "SETI32", txnum, w.pool[i].blk, off, w.pool[i].contents[off])

\* Transaction::set_i32
tx_set_i32(w, s, blk, off, val, ok_to_log) ==
    LET w1 == cm_x_lock(w, s, BID(blk))
        i == w.mybuffers[s].buffers[blk]
        txnum == w.txs[s].txnum
    IN  IF ~w1.ok THEN Ret(w1, s, "set_i32", "LockAbort", 0)
        ELSE IF i = 0 THEN Fail(w1, s, "set_i32", "panic", FALSE, FALSE)
        ELSE IF ok_to_log /\ Gate(w1.lmMutex) # "go"
        THEN Fail(w1, s, "set_i32", Gate(w1.lmMutex), FALSE, FALSE)
        ELSE LET b == w1.pool[i].blk
                 old == w1.pool[i].contents[off]
                 r == IF ok_to_log THEN rm_set_i32(w1, txnum, i, off, val)
                      ELSE [w |-> w1, lsn |-> -1, id |-> 0]
             IN  Ret([r.w EXCEPT
                        !.pool[i] = [set_modified([@ EXCEPT !.contents[off] = val], txnum, r.lsn)
                                        EXCEPT !.lastRec = IF ok_to_log THEN r.id ELSE @],
                        !.txs[s].unlogged = @ \/ ~ok_to_log,
                        !.txBefore[s][b][off] = IF @ = -1 THEN old ELSE @,
                        !.txWrote[s][b][off] = val],
                     s, "set_i32", "Ok", 0)

\* Transaction::size
tx_size(w, s) ==
    LET w1 == cm_s_lock(w, s, DUMMY(END_OF_FILE))
    IN  IF ~w1.ok THEN Ret(w1, s, "size", "LockAbort", 0)
        ELSE Ret(w1, s, "size", "Ok", w1.flen)

\* Transaction::append, FileMgr::append
tx_append(w, s) ==
    LET w1 == cm_x_lock(w, s, DUMMY(END_OF_FILE))
    IN  IF ~w1.ok THEN Ret(w1, s, "append", "LockAbort", 0)
        ELSE Ret([w1 EXCEPT !.data[w1.flen] = ZeroPage, !.flen = @ + 1],
                 s, "append", "Ok", w1.flen)

\* Whether a frame is marked modified by txnum
HasDirty(w, txnum) == \E i \in Frames : w.pool[i].txnum = txnum

\* The lock! macro of recovery/manager.rs for the call op: the LogMgr and the
\* BufferMgr are locked, then flush_all(txnum)?. Buffer::flush of a modified
\* frame locks the LogMgr, which this thread holds; so does the write_to_log
\* that follows a flush_all that returned Ok.
lock_macro(w, s, op, how) ==
    IF Gate(w.lmMutex) # "go" THEN Fail(w, s, op, Gate(w.lmMutex), FALSE, FALSE)
    ELSE IF Gate(w.bmMutex) # "go" THEN Fail(w, s, op, Gate(w.bmMutex), TRUE, FALSE)
    ELSE IF HasDirty(w, w.txs[s].txnum) THEN Fail(w, s, op, how, TRUE, TRUE)
    ELSE IF flush_all_result # "Ok" THEN Ret(w, s, op, flush_all_result, 0)
    ELSE Fail(w, s, op, how, TRUE, TRUE)

\* Transaction::commit, RecoveryMgr::commit. The `?` after recovery_mgr's
\* commit returns its error; release() and unpin_all() come after it.
tx_commit(w, s, how) == lock_macro(w, s, "commit", how)

\* LogMgr::iterator, and the iteration to its end
log_records(w) ==
    LET f == flush_to_fm([lm |-> w.lm, file |-> w.file])
    IN  [w |-> [w EXCEPT !.lm = f.lm, !.file = f.file],
         recs |-> IterRun(NewIterator(f.file, f.lm.current_blk, <<>>), f.file)]

\* RecoveryMgr::do_rollback on the records recs, newest first: "Ok" when the
\* loop ends or returns at the START record, "undo" when it calls undo
do_rollback(recs, txnum) ==
    LET own == {i \in 1..Len(recs) : recs[i].tx = txnum}
    IN  IF own = {} THEN "Ok"
        ELSE IF recs[CHOOSE i \in own : \A j \in own : i <= j].op = "START" THEN "Ok"
        ELSE "undo"

\* RecoveryMgr::do_recover on the records recs, newest first
do_recover(recs) ==
    LET cps == {i \in 1..Len(recs) : recs[i].op = "CHECKPOINT"}
        lim == IF cps = {} THEN Len(recs) + 1 ELSE CHOOSE i \in cps : \A j \in cps : i <= j
        fin(i) == {recs[j].tx : j \in {k \in 1..(i - 1) : recs[k].op \in {"COMMIT", "ROLLBACK"}}}
    IN  IF \E i \in 1..(lim - 1) :
              recs[i].op \notin {"COMMIT", "ROLLBACK"} /\ recs[i].tx \notin fin(i)
        THEN "undo" ELSE "Ok"

\* Transaction::rollback, RecoveryMgr::rollback. Every undo of logrecord.rs is
\* panic!("TODO"); do_rollback holds the LogMgr's guard when it calls it.
tx_rollback(w, s, how) ==
    IF Gate(w.lmMutex) # "go" THEN Fail(w, s, "rollback", Gate(w.lmMutex), FALSE, FALSE)
    ELSE LET r == log_records(w)
         IN  IF do_rollback(r.recs, w.txs[s].txnum) = "undo"
             THEN Fail(r.w, s, "rollback", "panic", TRUE, FALSE)
             ELSE lock_macro(r.w, s, "rollback", how)

\* Transaction::recover: flush_all(txnum)? first, then RecoveryMgr::recover
tx_recover(w, s, how) ==
    IF Gate(w.bmMutex) # "go" THEN Fail(w, s, "recover", Gate(w.bmMutex), FALSE, FALSE)
    ELSE IF HasDirty(w, w.txs[s].txnum) /\ Gate(w.lmMutex) # "go"
    THEN Fail(w, s, "recover", Gate(w.lmMutex), FALSE, TRUE)
    ELSE LET w1 == flush_all(w, w.txs[s].txnum)
         IN  IF ~w1.ok THEN Ret(w1, s, "recover", "BlockNotFound", 0)
             ELSE IF flush_all_result # "Ok" THEN Ret(w1, s, "recover", flush_all_result, 0)
             ELSE IF Gate(w1.lmMutex) # "go"
             THEN Fail(w1, s, "recover", Gate(w1.lmMutex), FALSE, FALSE)
             ELSE LET r == log_records(w1)
                  IN  IF do_recover(r.recs) = "undo"
                      THEN Fail(r.w, s, "recover", "panic", TRUE, FALSE)
                      ELSE lock_macro(r.w, s, "recover", how)

TxInit ==
    /\ nextTxNum = 0
    /\ txs = [s \in Txs |-> NoTx]
    /\ mybuffers = [s \in Txs |-> NewBufferList]
    /\ tcall = [s \in Txs |-> NoCall]
    /\ actor = 0
    /\ lmMutex = "ok"
    /\ bmMutex = "ok"
    /\ ntxops = 0
    /\ epoch = 0
    /\ created = <<>>
    /\ txPinned = [s \in Txs |-> [b \in Blocks |-> 0]]
    /\ txBefore = [s \in Txs |-> Unmodified]
    /\ txWrote = [s \in Txs |-> Unmodified]
    /\ committedVal = [b \in Blocks |-> ZeroPage]

\* Thread s has made one Transaction call: the variables take the state w
TxStep(s, w) ==
    /\ actor' = s
    /\ bufferpool' = w.pool
    /\ num_available' = w.num_available
    /\ datafile' = w.data
    /\ filelen' = w.flen
    /\ walBad' = w.walBad
    /\ lm' = w.lm
    /\ logfile' = w.file
    /\ appended' = w.appended
    /\ appendRet' = w.appendRet
    /\ locks' = w.locks
    /\ cmLocks' = w.cm
    /\ nextTxNum' = w.nextTxNum
    /\ txs' = w.txs
    /\ mybuffers' = w.mybuffers
    /\ tcall' = w.tcall
    /\ lmMutex' = w.lmMutex
    /\ bmMutex' = w.bmMutex
    /\ created' = w.created
    /\ txPinned' = w.txPinned
    /\ txBefore' = w.txBefore
    /\ txWrote' = w.txWrote
    /\ committedVal' = w.committedVal
    /\ ntxops' = IF epoch = 0 THEN ntxops + 1 ELSE ntxops
    /\ UNCHANGED <<bpc, bres, held, nbufops, ltMutex, lpc, lres, nlockops, nflush, iter, epoch, ioVars>>

\* Calls are counted up to the crash; the process that has been started again
\* constructs one transaction, in its first thread, and asks it to recover.
Budget == epoch > 0 \/ ntxops < MaxTxOps

\* Thread s has a Transaction and is neither dead nor blocked
Active(s) == txs[s].st = "active" /\ epoch = 0 /\ ntxops < MaxTxOps

TxNew(s) ==
    /\ txs[s].st = "none" /\ Budget /\ (epoch > 0 => s = 1)
    /\ TxStep(s, tx_new(TxWorld, s))

TxPin(s, blk) == Active(s) /\ TxStep(s, tx_pin(TxWorld, s, blk))

\* The transaction unpins a block it has pinned
TxUnpin(s, blk) == Active(s) /\ txPinned[s][blk] > 0 /\ TxStep(s, tx_unpin(TxWorld, s, blk))

\* The transaction reads a block it has pinned
TxGetI32(s, blk, off) ==
    Active(s) /\ txPinned[s][blk] > 0 /\ TxStep(s, tx_get_i32(TxWorld, s, blk, off))

\* The transaction writes a block it has pinned
TxSetI32(s, blk, off, val, ok_to_log) ==
    Active(s) /\ txPinned[s][blk] > 0 /\ TxStep(s, tx_set_i32(TxWorld, s, blk, off, val, ok_to_log))

TxSize(s) == Active(s) /\ TxStep(s, tx_size(TxWorld, s))

TxAppend(s) == Active(s) /\ filelen < NumBlocks /\ TxStep(s, tx_append(TxWorld, s))

TxCommit(s) == Active(s) /\ \E how \in Relock : TxStep(s, tx_commit(TxWorld, s, how))

TxRollback(s) == Active(s) /\ \E how \in Relock : TxStep(s, tx_rollback(TxWorld, s, how))

TxRecover(s) == txs[s].st = "active" /\ Budget /\ \E how \in Relock : TxStep(s, tx_recover(TxWorld, s, how))

\* The process dies and is started again (one crash is followed): the buffers, the log page, the lock
\* table, the transactions and the txnum counter are lost; the files are kept.
Crash ==
    /\ epoch = 0
    /\ bufferpool' = [i \in Frames |-> NewBuffer]
    /\ num_available' = NumBuffs
    /\ lm' = LogMgrOn(logfile)
    /\ locks' = [k \in Keys |-> 0]
    /\ cmLocks' = [t \in Txs |-> [k \in Keys |-> "N"]]
    /\ nextTxNum' = 0
    /\ txs' = [s \in Txs |-> NoTx]
    /\ mybuffers' = [s \in Txs |-> NewBufferList]
    /\ tcall' = [s \in Txs |-> NoCall]
    /\ actor' = 0
    /\ lmMutex' = "ok"
    /\ bmMutex' = "ok"
    /\ created' = <<>>
    /\ txPinned' = [s \in Txs |-> [b \in Blocks |-> 0]]
    /\ txBefore' = [s \in Txs |-> Unmodified]
    /\ txWrote' = [s \in Txs |-> Unmodified]
    /\ epoch' = epoch + 1
    /\ UNCHANGED <<datafile, filelen, walBad, logfile, appended, appendRet, committedVal, ntxops>>
    /\ UNCHANGED <<bpc, bres, held, nbufops, ltMutex, lpc, lres, nlockops, nflush, iter, ioVars>>

(***************************************************************************)
(* Page: a byte buffer and its typed accessors (file/page.rs).             *)
(*                                                                         *)
(* A byte is a number in 0..255, an i32 a number in -2^31..2^31-1, a       *)
(* String the sequence of its code points (its bytes are their UTF-8       *)
(* encoding).  A usize is a number too: 0 or more stands for itself, a     *)
(* number k below 0 for 2^64 + k, so that -1 is usize::MAX.  Additions and *)
(* subtractions of usize values panic on overflow in a build with overflow *)
(* checks and wrap around in a build without them.                         *)
(***************************************************************************)
\* the longest page studied (Page::new_from_size's blocksize)
MaxPageLen == 6

Builds == {"debug", "release"}

\* a + b overflows usize
usize_add_overflows(a, b) ==
    IF a < 0 /\ b < 0 THEN TRUE
    ELSE IF a < 0 \/ b < 0 THEN a + b >= 0
    ELSE FALSE

\* a < b between usize values
usize_lt(a, b) == IF (a < 0) = (b < 0) THEN a < b ELSE b < 0

\* the Result of an accessor: Ok(i), Ok(b), an Err, or a panic
PageRes(tag, i, b) == [tag |-> tag, i |-> i, b |-> b]

\* the bytes of an i32 with the least significant byte first
to_le_bytes(n) ==
    <<n % 256, (n \div 256) % 256, (n \div 65536) % 256, (n \div 16777216) % 256>>

\* i32::to_be_bytes
to_be_bytes(n) ==
    <<(n \div 16777216) % 256, (n \div 65536) % 256, (n \div 256) % 256, n % 256>>

\* i32::from_be_bytes
from_be_bytes(b) ==
    (IF b[1] >= 128 THEN b[1] - 256 ELSE b[1]) * 16777216
        + b[2] * 65536 + b[3] * 256 + b[4]

\* String::as_bytes: the UTF-8 encoding of the code points
RECURSIVE as_bytes(_)
as_bytes(s) ==
    IF s = <<>> THEN <<>>
    ELSE LET c == Head(s)
             e == IF c < 128 THEN <<c>>
                  ELSE IF c < 2048 THEN <<192 + (c \div 64), 128 + (c % 64)>>
                  ELSE IF c < 65536
                       THEN <<224 + (c \div 4096), 128 + ((c \div 64) % 64), 128 + (c % 64)>>
                  ELSE <<240 + (c \div 262144), 128 + ((c \div 4096) % 64),
                         128 + ((c \div 64) % 64), 128 + (c % 64)>>
         IN  e \o as_bytes(Tail(s))

IsCont(b, k) == k <= Len(b) /\ b[k] >= 128 /\ b[k] < 192

\* String::from_utf8: the code points, or no String when the bytes are not
\* UTF-8 (overlong forms, surrogates and truncated sequences included)
RECURSIVE from_utf8(_)
from_utf8(b) ==
    IF b = <<>> THEN [ok |-> TRUE, s |-> <<>>]
    ELSE LET h == b[1]
             n == IF h < 128 THEN 1
                  ELSE IF h >= 194 /\ h < 224 THEN 2
                  ELSE IF h >= 224 /\ h < 240 THEN 3
                  ELSE IF h >= 240 /\ h < 245 THEN 4
                  ELSE 0
             wellFormed == n > 0 /\ \A k \in 2..n : IsCont(b, k)
             c == IF n = 1 THEN h
                  ELSE IF n = 2 THEN (h - 192) * 64 + (b[2] - 128)
                  ELSE IF n = 3
                       THEN (h - 224) * 4096 + (b[2] - 128) * 64 + (b[3] - 128)
                  ELSE (h - 240) * 262144 + (b[2] - 128) * 4096
                           + (b[3] - 128) * 64 + (b[4] - 128)
             inRange == CASE n = 3 -> c >= 2048 /\ ~(c >= 55296 /\ c < 57344)
                          [] n = 4 -> c >= 65536 /\ c < 1114112
                          [] OTHER -> TRUE
         IN  IF ~wellFormed \/ ~inRange THEN [ok |-> FALSE, s |-> <<>>]
             ELSE LET rest == from_utf8(SubSeq(b, n + 1, Len(b)))
                  IN  IF rest.ok THEN [ok |-> TRUE, s |-> <<c>> \o rest.s]
                      ELSE rest

\* ToPageBytes for i32
i32_to_page_bytes(n) == to_be_bytes(n)
\* ToPageBytes for &[u8]: the length as an i32, then the bytes
bytes_to_page_bytes(b) == i32_to_page_bytes(Len(b)) \o b
\* ToPageBytes for String
string_to_page_bytes(s) == bytes_to_page_bytes(as_bytes(s))

\* the test `offset + size - 1 < self.bb.len()` of every accessor: "yes",
\* "no", or "panic" where the sum or the difference overflows under overflow checks
page_has_room(build, offset, size, len) ==
    LET sum == offset + size
        underflows == sum = 0
    IN  IF build = "debug" /\ (usize_add_overflows(offset, size) \/ underflows)
        THEN "panic"
        ELSE IF usize_lt(sum - 1, len) THEN "yes" ELSE "no"

\* the slice self.bb[from..from + size] can be taken: from <= from + size <= len
page_slice_ok(from, size, len) ==
    /\ ~usize_lt(from + size, from)
    /\ ~usize_lt(len, from + size)

\* Page::set_page_bytes: the page left and the result
set_page_bytes(build, p, offset, b) ==
    LET room == page_has_room(build, offset, Len(b), Len(p))
    IN  IF room = "panic" THEN [bb |-> p, res |-> PageRes("panic", 0, <<>>)]
        ELSE IF room = "no" THEN [bb |-> p, res |-> PageRes("BufferSizeExceeded", 0, <<>>)]
        ELSE IF ~page_slice_ok(offset, Len(b), Len(p))
             THEN [bb |-> p, res |-> PageRes("panic", 0, <<>>)]
        ELSE [bb |-> [k \in 1..Len(p) |->
                        IF k > offset /\ k <= offset + Len(b) THEN b[k - offset] ELSE p[k]],
              res |-> PageRes("Ok", offset + Len(b), <<>>)]

\* Page::set_i32, Page::set_bytes, Page::set_string (Setter::set)
page_set_i32(build, p, offset, n) == set_page_bytes(build, p, offset, i32_to_page_bytes(n))
page_set_bytes(build, p, offset, b) == set_page_bytes(build, p, offset, bytes_to_page_bytes(b))
page_set_string(build, p, offset, s) == set_page_bytes(build, p, offset, string_to_page_bytes(s))

\* Page::get_i32
page_get_i32(build, p, offset) ==
    LET room == page_has_room(build, offset, I32Size, Len(p))
    IN  IF room = "panic" THEN PageRes("panic", 0, <<>>)
        ELSE IF room = "no" THEN PageRes("BufferSizeExceeded", 0, <<>>)
        ELSE IF ~page_slice_ok(offset, I32Size, Len(p)) THEN PageRes("panic", 0, <<>>)
        ELSE PageRes("Ok", from_be_bytes(SubSeq(p, offset + 1, offset + I32Size)), <<>>)

\* Page::get_bytes: the length is the i32 at the offset, cast to usize
page_get_bytes(build, p, offset) ==
    LET r == page_get_i32(build, p, offset)
        len == r.i
        new_offset == offset + I32Size
        room == page_has_room(build, new_offset, len, Len(p))
    IN  IF r.tag # "Ok" THEN r
        ELSE IF room = "panic" THEN PageRes("panic", 0, <<>>)
        ELSE IF room = "no" THEN PageRes("BufferSizeExceeded", 0, <<>>)
        ELSE IF ~page_slice_ok(new_offset, len, Len(p)) THEN PageRes("panic", 0, <<>>)
        ELSE PageRes("Ok", 0, SubSeq(p, new_offset + 1, new_offset + len))

\* Page::get_string
page_get_string(build, p, offset) ==
    LET r == page_get_bytes(build, p, offset)
        s == from_utf8(r.b)
    IN  IF r.tag # "Ok" THEN r
        ELSE IF ~s.ok THEN PageRes("FromUtf8Error", 0, <<>>)
        ELSE PageRes("Ok", 0, s.s)

\* the pages, offsets and values the accessors are called with
PageLens == 0..MaxPageLen
\* usize::MAX and usize::MAX - 3 are what Transaction's `offset as usize`
\* makes of the offsets -1 and -4
PageOffsets == (0..(MaxPageLen + 1)) \cup {-1, -4}
I32Vals == {0, 1, -1, -2, 16909060}
ByteStrings == {<<>>, <<7>>, <<200, 7>>}
Strings == {<<>>, <<97>>, <<233>>}
\* the byte vectors given to Page::new_from_bytes: all ones, and a length of
\* 2 followed by bytes that are not UTF-8
PagePatterns(n) == {[k \in 1..n |-> 255], SubSeq(<<0, 0, 0, 2, 195, 40, 7, 7>>, 1, n)}

NoPageCall == [op |-> "none", kind |-> "none", off |-> 0, i |-> 0, b |-> <<>>,
               res |-> PageRes("none", 0, <<>>)]
PageCall(op, kind, off, i, b, res) ==
    [op |-> op, kind |-> kind, off |-> off, i |-> i, b |-> b, res |-> res]

PageInit ==
    /\ bb = <<>>
    /\ bbBefore = <<>>
    /\ pagePc = "none"
    /\ pageCall = NoPageCall
    /\ pagePrevCall = NoPageCall

notPageVars == <<bufVars, lockVars, logVars, txVars, fileVars, recVars, cmVars, scanVars>>
notFileVars == <<bufVars, lockVars, logVars, txVars, pageVars, recVars, cmVars, scanVars>>

\* a Page is constructed over the bytes b
PageNew(b) ==
    /\ pagePc = "none"
    /\ bb' = b
    /\ bbBefore' = b
    /\ pagePc' = "fresh"
    /\ UNCHANGED <<pageCall, pagePrevCall>>

\* Page::new_from_size
PageNewFromSize(n) == PageNew([k \in 1..n |-> 0]) /\ UNCHANGED notPageVars

\* Page::new_from_bytes
PageNewFromBytes(b) == PageNew(b) /\ UNCHANGED notPageVars

\* a setter is called on the page
PageSet(kind, offset, i, b, w) ==
    /\ pagePc = "fresh"
    /\ bbBefore' = bb
    /\ bb' = w.bb
    /\ pagePc' = "set"
    /\ pagePrevCall' = pageCall
    /\ pageCall' = PageCall("set", kind, offset, i, b, w.res)

PgSetI32(build, offset, n) ==
    PageSet("i32", offset, n, <<>>, page_set_i32(build, bb, offset, n)) /\ UNCHANGED notPageVars
PgSetBytes(build, offset, b) ==
    PageSet("bytes", offset, 0, b, page_set_bytes(build, bb, offset, b)) /\ UNCHANGED notPageVars
PgSetString(build, offset, s) ==
    PageSet("string", offset, 0, s, page_set_string(build, bb, offset, s)) /\ UNCHANGED notPageVars

\* a getter is called on the page: the page is borrowed immutably
PageGet(kind, offset, res) ==
    /\ pagePc \in {"fresh", "set"}
    /\ bbBefore' = bb
    /\ bb' = bb
    /\ pagePc' = "got"
    /\ pagePrevCall' = pageCall
    /\ pageCall' = PageCall("get", kind, offset, 0, <<>>, res)

PgGetI32(build, offset) ==
    PageGet("i32", offset, page_get_i32(build, bb, offset)) /\ UNCHANGED notPageVars
PgGetBytes(build, offset) ==
    PageGet("bytes", offset, page_get_bytes(build, bb, offset)) /\ UNCHANGED notPageVars
PgGetString(build, offset) ==
    PageGet("string", offset, page_get_string(build, bb, offset)) /\ UNCHANGED notPageVars

PageNext ==
    \/ \E n \in PageLens : PageNewFromSize(n)
    \/ \E n \in PageLens : \E b \in PagePatterns(n) : PageNewFromBytes(b)
    \/ \E build \in Builds, offset \in PageOffsets : \E n \in I32Vals : PgSetI32(build, offset, n)
    \/ \E build \in Builds, offset \in PageOffsets : \E b \in ByteStrings : PgSetBytes(build, offset, b)
    \/ \E build \in Builds, offset \in PageOffsets : \E s \in Strings : PgSetString(build, offset, s)
    \/ \E build \in Builds, offset \in PageOffsets : PgGetI32(build, offset)
    \/ \E build \in Builds, offset \in PageOffsets : PgGetBytes(build, offset)
    \/ \E build \in Builds, offset \in PageOffsets : PgGetString(build, offset)

(***************************************************************************)
(* FileMgr: blocks of one file read and written through pages of one       *)
(* block (file/manager.rs).  The file is the sequence of its bytes; a      *)
(* write past its end leaves zeroes in between, as the file system does.   *)
(***************************************************************************)
\* FileMgr.blocksize of the FileMgr studied on its own
FmBlockSize == 2
\* the highest block number read or written
MaxFileBlk == 2
\* number of FileMgr calls explored
MaxFileOps == 4

FileBlks == 0..MaxFileBlk
\* the pages handed to FileMgr::write, and the page handed to FileMgr::read
\* (Page::new_from_size(fm.blocksize()) after a few setters)
FilePages == {[k \in 1..FmBlockSize |-> 1], [k \in 1..FmBlockSize |-> 10 + k]}
ReadTarget == [k \in 1..FmBlockSize |-> 7]
Zeroes(n) == [k \in 1..n |-> 0]

\* File::seek(SeekFrom::Start(pos)) followed by File::write_all(data)
seek_write_all(file, pos, data) ==
    LET end == pos + Len(data)
        newlen == IF end > Len(file) THEN end ELSE Len(file)
    IN  [k \in 1..newlen |->
            IF k > pos /\ k <= end THEN data[k - pos]
            ELSE IF k <= Len(file) THEN file[k]
            ELSE 0]

\* File::seek(SeekFrom::Start(pos)) followed by File::read into n bytes:
\* the bytes read, fewer than n at the end of the file
seek_read(file, pos, n) ==
    IF pos >= Len(file) THEN <<>>
    ELSE SubSeq(file, pos + 1, IF pos + n > Len(file) THEN Len(file) ELSE pos + n)

\* a read that extends the file but leaves the rest of the page as it was
fm_read_without_zero_fill(file, blk, p) ==
    LET offset == blk * FmBlockSize
        got == seek_read(file, offset, Len(p))
    IN  [file |-> IF Len(got) < Len(p)
                  THEN seek_write_all(file, offset + Len(got), Zeroes(Len(p) - Len(got)))
                  ELSE file,
         p |-> got \o SubSeq(p, Len(got) + 1, Len(p))]

\* FileMgr::read: the file and the page left
fm_read(file, blk, p) ==
    LET offset == blk * FmBlockSize
        got == seek_read(file, offset, Len(p))
        read_len == Len(got)
        p_len == Len(p)
    IN  IF read_len < p_len
        THEN [file |-> seek_write_all(file, offset + read_len, Zeroes(p_len - read_len)),
              p |-> got \o Zeroes(p_len - read_len)]
        ELSE [file |-> file, p |-> got]

\* FileMgr::write
fm_write(file, blk, p) == seek_write_all(file, blk * FmBlockSize, p)

\* FileMgr::length: the number of blocks, rounded up
fm_length(file) == (Len(file) + FmBlockSize - 1) \div FmBlockSize

\* FileMgr::append: the file left and the number of the new block
fm_append(file) ==
    LET new_blknum == fm_length(file)
    IN  [file |-> seek_write_all(file, new_blknum * FmBlockSize, Zeroes(FmBlockSize)),
         blk |-> new_blknum]

NoFmCall == [op |-> "none", blk |-> 0, p |-> <<>>, q |-> <<>>]

\* FileMgr::new on a directory that does not exist yet: the file is created
\* empty by the first get_file
FileInit ==
    /\ fileBytes = <<>>
    /\ fileWritten = [b \in FileBlks |-> <<>>]
    /\ fmCall = NoFmCall
    /\ nfileops = 0

FmRead(blk) ==
    /\ nfileops < MaxFileOps
    /\ LET r == fm_read(fileBytes, blk, ReadTarget)
       IN  /\ fileBytes' = r.file
           /\ fmCall' = [op |-> "read", blk |-> blk, p |-> ReadTarget, q |-> r.p]
    /\ nfileops' = nfileops + 1
    /\ UNCHANGED fileWritten
    /\ UNCHANGED notFileVars

FmWrite(blk, p) ==
    /\ nfileops < MaxFileOps
    /\ fileBytes' = fm_write(fileBytes, blk, p)
    /\ fileWritten' = [fileWritten EXCEPT ![blk] = p]
    /\ fmCall' = [op |-> "write", blk |-> blk, p |-> p, q |-> p]
    /\ nfileops' = nfileops + 1
    /\ UNCHANGED notFileVars

FmAppend ==
    /\ nfileops < MaxFileOps
    /\ fm_length(fileBytes) <= MaxFileBlk
    /\ LET r == fm_append(fileBytes)
       IN  /\ fileBytes' = r.file
           /\ fmCall' = [op |-> "append", blk |-> r.blk, p |-> <<>>, q |-> <<>>]
    /\ nfileops' = nfileops + 1
    /\ UNCHANGED fileWritten
    /\ UNCHANGED notFileVars

FileNext ==
    \/ \E blk \in FileBlks : FmRead(blk)
    \/ \E blk \in FileBlks : \E p \in FilePages : FmWrite(blk, p)
    \/ FmAppend

(***************************************************************************)
(* Log records byte by byte (tx/recovery/logrecord.rs): write_to_log lays  *)
(* a record out in a Page and appends the page's bytes to the log; the     *)
(* iterator hands the bytes back and create_log_record decodes them.  The  *)
(* log is one new LogMgr with room for the record in its first block.      *)
(*                                                                         *)
(* A u64 is held as its high and its low 32 bits, each as the i32 with     *)
(* that bit pattern, so that the casts between u64 and i32 keep and drop   *)
(* the bits they do in the program.                                        *)
(***************************************************************************)
\* FileMgr.blocksize of the log the records are written to
RecBlockSize == 40

CHECKPOINT == 0
START == 1
COMMIT == 2
ROLLBACK == 3
SETI32 == 4
SETSTRING == 5

U64(hi, lo) == [hi |-> hi, lo |-> lo]
\* `blk.number() as i32`: the low 32 bits
u64_as_i32(n) == n.lo
\* `blknum as u64`: the sign is extended
i32_as_u64(v) == U64(IF v < 0 THEN -1 ELSE 0, v)

\* the setters of write_to_log in turn, each followed by `?`: the page left,
\* or no page when one of them failed
RECURSIVE set_fields(_, _, _)
set_fields(build, p, fields) ==
    IF fields = <<>> THEN [ok |-> TRUE, bb |-> p]
    ELSE LET w == set_page_bytes(build, p, Head(fields).pos, Head(fields).bytes)
         IN  IF w.res.tag # "Ok" THEN [ok |-> FALSE, bb |-> p]
             ELSE set_fields(build, w.bb, Tail(fields))

Field(pos, bytes) == [pos |-> pos, bytes |-> bytes]

\* CheckpointRecord::write_to_log up to the append: the record's bytes
checkpoint_bytes(build) ==
    set_fields(build, [k \in 1..I32Size |-> 0], <<Field(0, i32_to_page_bytes(CHECKPOINT))>>)

\* StartRecord / CommitRecord / RollbackRecord::write_to_log up to the append
simple_bytes(build, op, txnum) ==
    LET tpos == I32Size
        rec_len == tpos + I32Size
    IN  set_fields(build, [k \in 1..rec_len |-> 0],
                   <<Field(0, i32_to_page_bytes(op)), Field(tpos, i32_to_page_bytes(txnum))>>)

\* AbstractDataRecord::write_to_log up to the append; valbytes is what
\* set_value stores (the i32, or the string with its length)
data_bytes(build, op, txnum, fname, blknum, offset, valbytes) ==
    LET tpos == I32Size
        fpos == tpos + I32Size
        bpos == fpos + I32Size + Len(as_bytes(fname))
        opos == bpos + I32Size
        vpos == opos + I32Size
        rec_len == vpos + Len(valbytes)
    IN  set_fields(build, [k \in 1..rec_len |-> 0],
                   <<Field(0, i32_to_page_bytes(op)),
                     Field(tpos, i32_to_page_bytes(txnum)),
                     Field(fpos, string_to_page_bytes(fname)),
                     Field(bpos, i32_to_page_bytes(u64_as_i32(blknum))),
                     Field(opos, i32_to_page_bytes(offset)),
                     Field(vpos, valbytes)>>)

\* a log record as the program holds it; the fields a kind does not have are
\* left at their defaults
Rec(tag, op, txnum, fname, blknum, offset, ival, sval) ==
    [tag |-> tag, op |-> op, txnum |-> txnum, fname |-> fname, blknum |-> blknum,
     offset |-> offset, ival |-> ival, sval |-> sval]
NoRec == Rec("none", -1, 0, <<>>, U64(0, 0), 0, 0, <<>>)
RecErr(tag) == Rec(tag, -1, 0, <<>>, U64(0, 0), 0, 0, <<>>)

\* StartRecord::new, CommitRecord::new, RollbackRecord::new
simple_new(build, p, op) ==
    LET txnum == page_get_i32(build, p, I32Size)
    IN  IF txnum.tag # "Ok" THEN RecErr(txnum.tag)
        ELSE Rec("Ok", op, txnum.i, <<>>, U64(0, 0), 0, 0, <<>>)

\* AbstractDataRecord::new with SetI32Record / SetStringRecord::new_from_vpos
data_new(build, p, op) ==
    LET tpos == I32Size
        txnum == page_get_i32(build, p, tpos)
        fpos == tpos + I32Size
        filename == page_get_string(build, p, fpos)
        bpos == fpos + I32Size + Len(as_bytes(filename.b))
        blknum == page_get_i32(build, p, bpos)
        opos == bpos + I32Size
        offset == page_get_i32(build, p, opos)
        vpos == opos + I32Size
        ival == page_get_i32(build, p, vpos)
        sval == page_get_string(build, p, vpos)
    IN  IF txnum.tag # "Ok" THEN RecErr(txnum.tag)
        ELSE IF filename.tag # "Ok" THEN RecErr(filename.tag)
        ELSE IF blknum.tag # "Ok" THEN RecErr(blknum.tag)
        ELSE IF offset.tag # "Ok" THEN RecErr(offset.tag)
        ELSE IF op = SETI32
             THEN IF ival.tag # "Ok" THEN RecErr(ival.tag)
                  ELSE Rec("Ok", op, txnum.i, filename.b, i32_as_u64(blknum.i), offset.i,
                           ival.i, <<>>)
        ELSE IF sval.tag # "Ok" THEN RecErr(sval.tag)
             ELSE Rec("Ok", op, txnum.i, filename.b, i32_as_u64(blknum.i), offset.i, 0, sval.b)

\* <dyn LogRecord>::create_log_record; a CheckpointRecord answers -1 to tx_number
create_log_record(build, bytes) ==
    LET tx_type == page_get_i32(build, bytes, 0)
    IN  IF tx_type.tag # "Ok" THEN RecErr(tx_type.tag)
        ELSE IF tx_type.i = CHECKPOINT
             THEN Rec("Ok", CHECKPOINT, -1, <<>>, U64(0, 0), 0, 0, <<>>)
        ELSE IF tx_type.i \in {START, COMMIT, ROLLBACK} THEN simple_new(build, bytes, tx_type.i)
        ELSE IF tx_type.i \in {SETI32, SETSTRING} THEN data_new(build, bytes, tx_type.i)
        ELSE RecErr("UnknownRecord")

\* LogMgr::new on an empty log file: the first block with its boundary
rec_new_logpage == set_page_bytes("release", [k \in 1..RecBlockSize |-> 0], 0,
                                  i32_to_page_bytes(RecBlockSize)).bb

\* LogMgr::append while the record fits the current block: the log page left,
\* or no page when an accessor failed
rec_log_append(build, logpage, logrec) ==
    LET boundary == page_get_i32(build, logpage, 0)
        bytes_needed == Len(logrec) + I32Size
        recpos == boundary.i - bytes_needed
        w1 == page_set_bytes(build, logpage, recpos, logrec)
        w2 == page_set_i32(build, w1.bb, 0, recpos)
    IN  IF boundary.tag # "Ok" \/ w1.res.tag # "Ok" \/ w2.res.tag # "Ok"
        THEN [ok |-> FALSE, bb |-> logpage]
        ELSE [ok |-> TRUE, bb |-> w2.bb]

\* LogMgr::iterator and the first LogIterator::next: the page is flushed and
\* read back, the record at the boundary is returned
rec_iter_first(build, logpage) ==
    LET boundary == page_get_i32(build, logpage, 0)
    IN  IF boundary.tag # "Ok" THEN boundary
        ELSE page_get_bytes(build, logpage, boundary.i)

RecInit ==
    /\ recLogPage = rec_new_logpage
    /\ recWritten = NoRec
    /\ recRead = NoRec
    /\ recPc = "empty"

notRecVars == <<bufVars, lockVars, logVars, txVars, pageVars, fileVars, cmVars, scanVars>>

\* a write_to_log whose record is laid out as w and which was given rec
RecWrite(w, rec) ==
    /\ w.ok
    /\ Len(w.bb) + 2 * I32Size <= RecBlockSize
    /\ LET a == rec_log_append("release", recLogPage, w.bb)
       IN  /\ a.ok
           /\ recLogPage' = a.bb
    /\ recWritten' = rec
    /\ recPc' = "written"
    /\ UNCHANGED recRead
    /\ UNCHANGED notRecVars

\* the field values the records are written with
RecTxNums == {1, -1, 300}
RecFileNames == {<<102>>, <<102, 233>>}
\* block numbers 0 and 2, 2^31, 2^32 + 1 and u64::MAX
RecBlkNums == {U64(0, 0), U64(0, 2), U64(0, -2147483647 - 1), U64(1, 1), U64(-1, -1)}
RecOffsets == {0, 40, -1}

CheckpointWrite(build) ==
    /\ recPc = "empty"
    /\ RecWrite(checkpoint_bytes(build), Rec("Ok", CHECKPOINT, -1, <<>>, U64(0, 0), 0, 0, <<>>))
StartWrite(build, txnum) ==
    /\ recPc = "empty"
    /\ RecWrite(simple_bytes(build, START, txnum), Rec("Ok", START, txnum, <<>>, U64(0, 0), 0, 0, <<>>))
CommitWrite(build, txnum) ==
    /\ recPc = "empty"
    /\ RecWrite(simple_bytes(build, COMMIT, txnum), Rec("Ok", COMMIT, txnum, <<>>, U64(0, 0), 0, 0, <<>>))
RollbackWrite(build, txnum) ==
    /\ recPc = "empty"
    /\ RecWrite(simple_bytes(build, ROLLBACK, txnum),
             Rec("Ok", ROLLBACK, txnum, <<>>, U64(0, 0), 0, 0, <<>>))
SetI32Write(build, txnum, fname, blknum, offset, val) ==
    /\ recPc = "empty"
    /\ RecWrite(data_bytes(build, SETI32, txnum, fname, blknum, offset, i32_to_page_bytes(val)),
             Rec("Ok", SETI32, txnum, fname, blknum, offset, val, <<>>))
SetStringWrite(build, txnum, fname, blknum, offset, val) ==
    /\ recPc = "empty"
    /\ RecWrite(data_bytes(build, SETSTRING, txnum, fname, blknum, offset, string_to_page_bytes(val)),
             Rec("Ok", SETSTRING, txnum, fname, blknum, offset, 0, val))

\* the record just appended is taken from the iterator and decoded
RecReadBack(build) ==
    /\ recPc = "written"
    /\ LET r == rec_iter_first(build, recLogPage)
       IN  recRead' = IF r.tag # "Ok" THEN RecErr(r.tag) ELSE create_log_record(build, r.b)
    /\ recPc' = "read"
    /\ UNCHANGED <<recLogPage, recWritten>>
    /\ UNCHANGED notRecVars

RecNext ==
    \/ \E build \in Builds : CheckpointWrite(build)
    \/ \E build \in Builds, txnum \in RecTxNums : StartWrite(build, txnum)
    \/ \E build \in Builds, txnum \in RecTxNums : CommitWrite(build, txnum)
    \/ \E build \in Builds, txnum \in RecTxNums : RollbackWrite(build, txnum)
    \/ \E build \in Builds, txnum \in RecTxNums, fname \in RecFileNames :
         \E blknum \in RecBlkNums, offset \in RecOffsets, val \in I32Vals :
             SetI32Write(build, txnum, fname, blknum, offset, val)
    \/ \E build \in Builds, txnum \in RecTxNums, fname \in RecFileNames :
         \E blknum \in RecBlkNums, offset \in RecOffsets, val \in Strings :
             SetStringWrite(build, txnum, fname, blknum, offset, val)
    \/ \E build \in Builds : RecReadBack(build)

(***************************************************************************)
(* ConcurrencyMgr::new and the LockTable each manager refers to            *)
(* (tx/concurrency/manager.rs).  A manager keeps the Mutex around its      *)
(* LockTable locked for the whole of LockTable::s_lock, x_lock or unlock,  *)
(* waits included, so a call on a table is one step: it is granted, or it  *)
(* ends with LockAbort because nothing could change the table meanwhile.   *)
(***************************************************************************)
\* number of ConcurrencyMgr calls (new, s_lock, x_lock, release) explored
MaxCmOps == 5

CmKeys == {BID(0), DUMMY(END_OF_FILE)}
NoLocks == [k \in CmKeys |-> 0]

\* the files whose size is asked for or that are appended to
CmFileNames == {"f", "g"}
NoFile == ""
NoEof == [f \in CmFileNames |-> "N"]

\* the key Transaction::size and Transaction::append lock for filename
end_of_file_key(filename) == DUMMY(END_OF_FILE)

\* a ConcurrencyMgr::new that makes a LockTable of its own
cm_new_own_table(singleton, tbls) ==
    [singleton |-> singleton, tables |-> Append(tbls, NoLocks), locktbl |-> Len(tbls) + 1]

\* ConcurrencyMgr::new: ONCE.call_once creates the LockTable the first time;
\* the manager gets a clone of the Arc in SINGLETON
cm_new(singleton, tbls) ==
    IF singleton = 0
    THEN [singleton |-> Len(tbls) + 1, tables |-> Append(tbls, NoLocks),
          locktbl |-> Len(tbls) + 1]
    ELSE [singleton |-> singleton, tables |-> tbls, locktbl |-> singleton]

\* LockTable::s_lock from its first pass to its return, the table being
\* out of reach of other threads meanwhile
lt_s_lock(lk, key) ==
    IF ~has_x_lock(lk, key) THEN [res |-> "Ok", locks |-> s_lock_grant(lk, key)]
    ELSE [res |-> "LockAbort", locks |-> lk]

\* LockTable::x_lock likewise
lt_x_lock(lk, key) ==
    IF ~has_other_s_locks(lk, key) THEN [res |-> "Ok", locks |-> x_lock_grant(lk, key)]
    ELSE [res |-> "LockAbort", locks |-> lk]

\* the for loop of ConcurrencyMgr::release over the keys of its map
RECURSIVE unlock_all(_, _)
unlock_all(lk, keys) ==
    IF keys = {} THEN lk
    ELSE LET key == CHOOSE k \in keys : TRUE
         IN  unlock_all(unlock(lk, key), keys \ {key})

NoCmCall == [t |-> 0, op |-> "none", file |-> NoFile, had |-> "N", key |-> DUMMY(END_OF_FILE), res |-> "none"]

CmInit ==
    /\ SINGLETON = 0
    /\ tables = <<>>
    /\ cmTable = [t \in Txs |-> 0]
    /\ cmHeld = [t \in Txs |-> [k \in CmKeys |-> "N"]]
    /\ cmLast = NoCmCall
    /\ cmEof = [t \in Txs |-> NoEof]
    /\ ncmops = 0

notCmVars == <<bufVars, lockVars, logVars, txVars, pageVars, fileVars, recVars, scanVars>>

\* ConcurrencyMgr::new by thread t
CmNew(t) ==
    /\ cmTable[t] = 0 /\ ncmops < MaxCmOps
    /\ LET r == cm_new(SINGLETON, tables)
       IN  /\ SINGLETON' = r.singleton
           /\ tables' = r.tables
           /\ cmTable' = [cmTable EXCEPT ![t] = r.locktbl]
    /\ cmLast' = [t |-> t, op |-> "new", file |-> NoFile, had |-> "N", key |-> DUMMY(END_OF_FILE), res |-> "Ok"]
    /\ ncmops' = ncmops + 1
    /\ UNCHANGED <<cmHeld, cmEof>>
    /\ UNCHANGED notCmVars

\* a manager that takes every key for one it has not recorded
never_recorded(cmlocks, key) == TRUE

\* self.locks.get(&key).is_none() of ConcurrencyMgr::s_lock
not_recorded(cmlocks, key) == cmlocks[key] = "N"

\* the body of ConcurrencyMgr::s_lock for thread t, reached as call op
CmSLockCall(t, op, file, key) ==
    /\ IF ~not_recorded(cmHeld[t], key)
       THEN /\ cmLast' = [t |-> t, op |-> op, file |-> file, had |-> cmHeld[t][key], key |-> key, res |-> "Ok"]
            /\ UNCHANGED <<tables, cmHeld>>
       ELSE LET r == lt_s_lock(tables[cmTable[t]], key)
            IN  /\ tables' = [tables EXCEPT ![cmTable[t]] = r.locks]
                /\ cmHeld' = IF r.res = "Ok" THEN [cmHeld EXCEPT ![t][key] = "S"] ELSE cmHeld
                /\ cmLast' = [t |-> t, op |-> op, file |-> file, had |-> cmHeld[t][key], key |-> key, res |-> r.res]
    /\ ncmops' = ncmops + 1
    /\ UNCHANGED <<SINGLETON, cmTable>>
    /\ UNCHANGED notCmVars

\* the body of ConcurrencyMgr::x_lock for thread t, reached as call op:
\* self.s_lock(key)?, then LockTable::x_lock
CmXLockCall(t, op, file, key) ==
    /\ IF cmHeld[t][key] = "X"
       THEN /\ cmLast' = [t |-> t, op |-> op, file |-> file, had |-> cmHeld[t][key], key |-> key, res |-> "Ok"]
            /\ UNCHANGED <<tables, cmHeld>>
       ELSE LET s == IF ~not_recorded(cmHeld[t], key)
                     THEN [res |-> "Ok", locks |-> tables[cmTable[t]]]
                     ELSE lt_s_lock(tables[cmTable[t]], key)
                x == IF s.res = "Ok" THEN lt_x_lock(s.locks, key) ELSE s
            IN  /\ tables' = [tables EXCEPT ![cmTable[t]] = x.locks]
                /\ cmHeld' = IF x.res = "Ok" THEN [cmHeld EXCEPT ![t][key] = "X"]
                             ELSE IF s.res = "Ok" THEN [cmHeld EXCEPT ![t][key] = "S"]
                             ELSE cmHeld
                /\ cmLast' = [t |-> t, op |-> op, file |-> file, had |-> cmHeld[t][key], key |-> key, res |-> x.res]
    /\ ncmops' = ncmops + 1
    /\ UNCHANGED <<SINGLETON, cmTable>>
    /\ UNCHANGED notCmVars

\* ConcurrencyMgr::s_lock by thread t
CmTblSLock(t, key) ==
    /\ cmTable[t] # 0 /\ ncmops < MaxCmOps
    /\ CmSLockCall(t, "s_lock", NoFile, key)
    /\ UNCHANGED cmEof

\* ConcurrencyMgr::x_lock by thread t
CmTblXLock(t, key) ==
    /\ cmTable[t] # 0 /\ ncmops < MaxCmOps
    /\ CmXLockCall(t, "x_lock", NoFile, key)
    /\ UNCHANGED cmEof

\* the locking of Transaction::size(filename) by the transaction of thread t
CmTxSize(t, filename) ==
    /\ cmTable[t] # 0 /\ ncmops < MaxCmOps
    /\ CmSLockCall(t, "size", filename, end_of_file_key(filename))
    /\ cmEof' = IF cmLast'.res = "Ok" /\ cmEof[t][filename] = "N"
                THEN [cmEof EXCEPT ![t][filename] = "S"] ELSE cmEof

\* the locking of Transaction::append(filename) by the transaction of thread t
CmTxAppend(t, filename) ==
    /\ cmTable[t] # 0 /\ ncmops < MaxCmOps
    /\ CmXLockCall(t, "append", filename, end_of_file_key(filename))
    /\ cmEof' = IF cmLast'.res = "Ok"
                THEN [cmEof EXCEPT ![t][filename] = "X"] ELSE cmEof

\* ConcurrencyMgr::release by thread t
CmTblRelease(t) ==
    /\ cmTable[t] # 0 /\ ncmops < MaxCmOps
    /\ tables' = [tables EXCEPT ![cmTable[t]] =
                      unlock_all(@, {k \in CmKeys : cmHeld[t][k] # "N"})]
    /\ cmHeld' = [cmHeld EXCEPT ![t] = [k \in CmKeys |-> "N"]]
    /\ cmEof' = [cmEof EXCEPT ![t] = NoEof]
    /\ cmLast' = [t |-> t, op |-> "release", file |-> NoFile, had |-> "N", key |-> DUMMY(END_OF_FILE), res |-> "Ok"]
    /\ ncmops' = ncmops + 1
    /\ UNCHANGED <<SINGLETON, cmTable>>
    /\ UNCHANGED notCmVars

CmNext ==
    \/ \E t \in Txs : CmNew(t)
    \/ \E t \in Txs, key \in CmKeys : CmTblSLock(t, key)
    \/ \E t \in Txs, key \in CmKeys : CmTblXLock(t, key)
    \/ \E t \in Txs, filename \in CmFileNames : CmTxSize(t, filename)
    \/ \E t \in Txs, filename \in CmFileNames : CmTxAppend(t, filename)
    \/ \E t \in Txs : CmTblRelease(t)

(***************************************************************************)
(* RecoveryMgr::do_rollback and do_recover as scans of a log               *)
(* (tx/recovery/manager.rs).  Every undo of logrecord.rs is panic!("TODO"),*)
(* so a scan ends at the first record it calls undo on.                    *)
(***************************************************************************)
\* number of records in the logs explored
MaxScanLog == 4
\* number of transactions that wrote them
NumScanTx == 2

ScanTxs == 1..NumScanTx

\* a do_rollback that does not compare the record's txnum with its own
RECURSIVE rollback_scan_of_any_tx(_, _, _)
rollback_scan_of_any_tx(recs, i, txnum) ==
    IF i > Len(recs) THEN 0
    ELSE IF recs[i].op = "START" THEN 0
    ELSE i

\* the for loop of RecoveryMgr::do_rollback from the i-th record of recs
\* (newest first): the index of the record undo is called on, 0 when the loop
\* ends or returns at the START record
RECURSIVE rollback_scan(_, _, _)
rollback_scan(recs, i, txnum) ==
    IF i > Len(recs) THEN 0
    ELSE IF recs[i].tx = txnum
    THEN IF recs[i].op = "START" THEN 0 ELSE i
    ELSE rollback_scan(recs, i + 1, txnum)

\* the for loop of RecoveryMgr::do_recover from the i-th record of recs
\* (newest first) with finished_txs: the index of the record undo is called
\* on, 0 when the loop ends or returns at a CHECKPOINT record
RECURSIVE recover_scan(_, _, _)
recover_scan(recs, i, finished_txs) ==
    IF i > Len(recs) THEN 0
    ELSE IF recs[i].op = "CHECKPOINT" THEN 0
    ELSE IF recs[i].op \in {"COMMIT", "ROLLBACK"}
    THEN recover_scan(recs, i + 1, finished_txs \cup {recs[i].tx})
    ELSE IF recs[i].tx \notin finished_txs THEN i
    ELSE recover_scan(recs, i + 1, finished_txs)

NoScanCall == [op |-> "none", txnum |-> 0, undo |-> 0, res |-> "none"]

ScanInit ==
    /\ rmLog = <<>>
    /\ rmCall = NoScanCall

notScanVars == <<bufVars, lockVars, logVars, txVars, pageVars, fileVars, recVars, cmVars>>

\* the transactions that have a START record in the log, and those of them
\* that have no COMMIT or ROLLBACK record
ScanStarted == {rmLog[i].tx : i \in {j \in 1..Len(rmLog) : rmLog[j].op = "START"}}
ScanFinished ==
    {rmLog[i].tx : i \in {j \in 1..Len(rmLog) : rmLog[j].op \in {"COMMIT", "ROLLBACK"}}}

\* one more record is written to the log: the START record of the next
\* transaction, a record of a transaction that has started and not finished,
\* or a CHECKPOINT record
ScanLogAppend(op, tx) ==
    /\ Len(rmLog) < MaxScanLog
    /\ CASE op = "START" -> tx = Cardinality(ScanStarted) + 1 /\ tx \in ScanTxs
         [] op = "CHECKPOINT" -> tx = -1
         [] OTHER -> tx \in ScanStarted \ ScanFinished
    /\ rmLog' = Append(rmLog,
                       IF op = "SETI32" THEN LogRec(op, Len(rmLog) + 1, tx, 0, 40, 0)
                       ELSE LogRec(op, Len(rmLog) + 1, tx, -1, -1, 0))
    /\ rmCall' = NoScanCall
    /\ UNCHANGED notScanVars

\* RecoveryMgr::do_rollback of transaction txnum on the log
RmDoRollback(txnum) ==
    /\ txnum \in ScanStarted \ ScanFinished
    /\ LET u == rollback_scan(Reverse(rmLog), 1, txnum)
       IN  rmCall' = [op |-> "do_rollback", txnum |-> txnum, undo |-> u,
                      res |-> IF u = 0 THEN "Ok" ELSE "panic"]
    /\ UNCHANGED rmLog
    /\ UNCHANGED notScanVars

\* RecoveryMgr::do_recover on the log
RmDoRecover ==
    /\ LET u == recover_scan(Reverse(rmLog), 1, {})
       IN  rmCall' = [op |-> "do_recover", txnum |-> 0, undo |-> u,
                      res |-> IF u = 0 THEN "Ok" ELSE "panic"]
    /\ UNCHANGED rmLog
    /\ UNCHANGED notScanVars

ScanNext ==
    \/ \E op \in {"START", "COMMIT", "ROLLBACK", "SETI32", "CHECKPOINT"} :
          \E tx \in ScanTxs \cup {-1} : ScanLogAppend(op, tx)
    \/ \E txnum \in ScanTxs : RmDoRollback(txnum)
    \/ RmDoRecover

(***************************************************************************)
(* The log manager used on its own                                         *)
(***************************************************************************)
LogInit ==
    /\ lm = NewLogMgr
    /\ logfile = <<EmptyLogPage>>
    /\ appended = <<>>
    /\ appendRet = <<>>
    /\ nflush = 0
    /\ iter = NoIter

\* lm.append(rec) for a record that fits in a block
LogAppendLen(len) ==
    /\ LET rec == RawRec(Len(appended) + 1, len)
           r == append(LogState, rec)
       IN  /\ lm' = r.lm
           /\ logfile' = r.file
           /\ appended' = Append(appended, rec)
           /\ appendRet' = Append(appendRet, r.ret)
    /\ UNCHANGED <<nflush, iter>> /\ UNCHANGED notLogVars

LogAppend ==
    /\ Len(appended) < MaxAppends
    /\ \E len \in RawLens : LogAppendLen(len)

\* payload lengths up to the longest whose length prefix starts in the block:
\* a record of BlockSize - 8 bytes fills an empty block, one of BlockSize - 4
\* bytes is longer than a block has room for
LayoutLens == {4, 28, BlockSize - 8, BlockSize - 4}

\* lm.append(rec) of a record of any of those lengths
LogAppendAny ==
    /\ Len(appended) < MaxAppends
    /\ \E len \in LayoutLens : LogAppendLen(len)

\* lm.flush(lsn)
LogFlush ==
    /\ nflush < MaxFlushes
    /\ \E lsn \in 0..lm.latest_lsn :
         LET r == flush(LogState, lsn)
         IN  /\ lm' = r.lm
             /\ logfile' = r.file
    /\ nflush' = nflush + 1
    /\ UNCHANGED <<appended, appendRet, iter>> /\ UNCHANGED notLogVars

\* lm.iterator()
LogIterator ==
    /\ iter.done
    /\ LET r == flush_to_fm(LogState)
       IN  /\ lm' = r.lm
           /\ logfile' = r.file
           /\ iter' = NewIterator(r.file, r.lm.current_blk, appended)
    /\ UNCHANGED <<appended, appendRet, nflush>> /\ UNCHANGED notLogVars

\* one call of the iterator's next()
LogIterNext ==
    /\ ~iter.done
    /\ iter' = next(iter, logfile)
    /\ UNCHANGED <<lm, logfile, appended, appendRet, nflush>> /\ UNCHANGED notLogVars

Init ==
    /\ BufInit /\ LockInit /\ LogInit /\ TxInit /\ PageInit /\ FileInit /\ RecInit /\ CmInit
    /\ ScanInit

LogNext == LogAppend \/ LogFlush \/ LogIterator \/ LogIterNext

LogLayoutNext == LogAppendAny \/ LogFlush

SpecLog == Init /\ [][LogNext]_vars

SpecLogLayout == Init /\ [][LogLayoutNext]_vars

SpecPage == Init /\ [][PageNext]_vars

SpecFile == Init /\ [][FileNext]_vars

SpecRec == Init /\ [][RecNext]_vars

SpecCm == Init /\ [][CmNext]_vars
SpecScan == Init /\ [][ScanNext]_vars

(***************************************************************************)
(* Transactions locking through their ConcurrencyMgr                       *)
(***************************************************************************)
\* the keys requested in the lock table specification: one block and the
\* end-of-file key
LockSpecKeys == {BID(0), DUMMY(END_OF_FILE)}

LockNext ==
    \E t \in Txs :
        \/ \E key \in LockSpecKeys : CmSLock(t, key) \/ CmXLock(t, key)
        \/ LtSLockTry(t) \/ CmXEnter(t) \/ LtXLockTry(t) \/ LtAbort(t)
        \/ CmRelease(t) \/ CmReleaseKey(t) \/ CmReleaseDone(t)

SpecLock == Init /\ [][LockNext]_vars

\* Transactions that only request locks. The thread inside LockTable::s_lock
\* or LockTable::x_lock goes on running: its sleep ends and the loop takes its
\* next pass.
WaitSLock(t, key) == nlockops < MaxLockWaitOps /\ CmSLock(t, key)

WaitXLock(t, key) == nlockops < MaxLockWaitOps /\ CmXLock(t, key)

LockWaitNext ==
    \/ \E t \in Txs : \E key \in LockSpecKeys : WaitSLock(t, key)
    \/ \E t \in Txs : \E key \in LockSpecKeys : WaitXLock(t, key)
    \/ \E t \in Txs : LtSLockTry(t)
    \/ \E t \in Txs : CmXEnter(t)
    \/ \E t \in Txs : LtXLockTry(t)
    \/ \E t \in Txs : LtAbort(t)

SpecLockWait ==
    /\ Init /\ [][LockWaitNext]_vars
    /\ WF_vars(\E t \in Txs : LtSLockTry(t))
    /\ WF_vars(\E t \in Txs : LtXLockTry(t))
    /\ WF_vars(\E t \in Txs : LtAbort(t))

(***************************************************************************)
(* Transactions                                                            *)
(***************************************************************************)
TxNext ==
    \/ \E s \in Txs : TxNew(s)
    \/ \E s \in Txs : \E blk \in Blocks : TxPin(s, blk)
    \/ \E s \in Txs : \E blk \in Blocks : TxUnpin(s, blk)
    \/ \E s \in Txs : \E blk \in Blocks : \E off \in Offsets : TxGetI32(s, blk, off)
    \/ \E s \in Txs : \E blk \in Blocks : \E off \in Offsets : \E val \in Vals \ {0} :
          \E ok_to_log \in BOOLEAN : TxSetI32(s, blk, off, val, ok_to_log)
    \/ \E s \in Txs : TxSize(s)
    \/ \E s \in Txs : TxAppend(s)
    \/ \E s \in Txs : TxCommit(s)
    \/ \E s \in Txs : TxRollback(s)
    \/ \E s \in Txs : TxRecover(s)
    \/ Crash

SpecTx == Init /\ [][TxNext]_vars

(***************************************************************************)
(* Two transactions that share a block.  The start is the state SpecTx     *)
(* reaches by new() in both threads and pin(SharedBlk) in both; from there  *)
(* the transactions read and write what they pinned, pin and unpin, commit *)
(* and roll back.                                                          *)
(***************************************************************************)
\* The block both transactions pin
SharedBlk == NumBlocks - 1

\* Calls that follow the start
MaxSharedOps == 3

\* TxWorld in the state Init
NewWorld ==
    [pool |-> [i \in Frames |-> NewBuffer], num_available |-> NumBuffs, lm |-> NewLogMgr,
     file |-> <<EmptyLogPage>>, data |-> [b \in Blocks |-> ZeroPage], flen |-> 0,
     walBad |-> {}, ok |-> TRUE, locks |-> [k \in Keys |-> 0],
     cm |-> [t \in Txs |-> [k \in Keys |-> "N"]], appended |-> <<>>, appendRet |-> <<>>,
     nextTxNum |-> 0, txs |-> [s \in Txs |-> NoTx],
     mybuffers |-> [s \in Txs |-> NewBufferList], tcall |-> [s \in Txs |-> NoCall],
     lmMutex |-> "ok", bmMutex |-> "ok", created |-> <<>>,
     txPinned |-> [s \in Txs |-> [b \in Blocks |-> 0]],
     txBefore |-> [s \in Txs |-> Unmodified], txWrote |-> [s \in Txs |-> Unmodified],
     committedVal |-> [b \in Blocks |-> ZeroPage]]

\* Transaction::new in threads 1 and 2, then pin(SharedBlk) in both
BothPinned ==
    tx_pin(tx_pin(tx_new(tx_new(NewWorld, 1), 2), 1, SharedBlk), 2, SharedBlk)

\* The variables hold the state w
InWorld(w) ==
    /\ bufferpool = w.pool
    /\ num_available = w.num_available
    /\ datafile = w.data
    /\ filelen = w.flen
    /\ walBad = w.walBad
    /\ lm = w.lm
    /\ logfile = w.file
    /\ appended = w.appended
    /\ appendRet = w.appendRet
    /\ locks = w.locks
    /\ cmLocks = w.cm
    /\ nextTxNum = w.nextTxNum
    /\ txs = w.txs
    /\ mybuffers = w.mybuffers
    /\ tcall = w.tcall
    /\ lmMutex = w.lmMutex
    /\ bmMutex = w.bmMutex
    /\ created = w.created
    /\ txPinned = w.txPinned
    /\ txBefore = w.txBefore
    /\ txWrote = w.txWrote
    /\ committedVal = w.committedVal

PinnedInit ==
    /\ InWorld(BothPinned)
    /\ actor = 2
    /\ ntxops = MaxTxOps - MaxSharedOps
    /\ epoch = 0
    /\ bpc = NoPin
    /\ bres = [t \in Txs |-> "none"]
    /\ held = [t \in Txs |-> [i \in Frames |-> 0]]
    /\ nbufops = 0
    /\ ltMutex = 0
    /\ lpc = [t \in Txs |-> Idle]
    /\ lres = [t \in Txs |-> "none"]
    /\ nlockops = 0
    /\ nflush = 0
    /\ iter = NoIter
    /\ PageInit /\ FileInit /\ RecInit /\ CmInit /\ ScanInit

TxPinnedNext ==
    \/ \E s \in Txs : \E blk \in Blocks : TxPin(s, blk)
    \/ \E s \in Txs : \E blk \in Blocks : TxUnpin(s, blk)
    \/ \E s \in Txs : \E blk \in Blocks : \E off \in Offsets : TxGetI32(s, blk, off)
    \/ \E s \in Txs : \E blk \in Blocks : \E off \in Offsets : \E val \in Vals \ {0} :
          \E ok_to_log \in BOOLEAN : TxSetI32(s, blk, off, val, ok_to_log)
    \/ \E s \in Txs : TxCommit(s)
    \/ \E s \in Txs : TxRollback(s)

SpecTxPinned == PinnedInit /\ [][TxPinnedNext]_vars

(***************************************************************************)
(* Properties of the lock table                                            *)
(***************************************************************************)
\* C5: for every key at most one transaction holds an X lock, and while one
\* does no other transaction holds an S or an X lock on that key.
C5_LockSafety ==
    \A key \in Keys : \A t1 \in Txs : \A t2 \in Txs \ {t1} :
        HoldsX(t1, key) => ~Holds(t2, key)

\* C5 witness: a transaction holds an X lock that it obtained by upgrading its
\* S lock while another transaction, whose request for the same key timed
\* out, holds nothing on it.
C5_Witness ==
    \E key \in Keys : \E t1 \in Txs : \E t2 \in Txs \ {t1} :
        /\ HoldsX(t1, key) /\ locks[key] = -1
        /\ lres[t2] = "LockAbort" /\ ~Holds(t2, key)

\* Transaction t is inside LockTable::s_lock on a key that is X-locked, or
\* inside LockTable::x_lock on a key that others hold S locks on
LockWaiting(t) ==
    \/ lpc[t].op = "s_lock" /\ has_x_lock(locks, lpc[t].key)
    \/ lpc[t].op = "x_lock" /\ has_other_s_locks(locks, lpc[t].key)

\* The lock request of transaction t has returned LockAbort
LockAborted(t) == lpc[t].op = "idle" /\ lres[t] = "LockAbort"

\* C11: an s_lock request on a key X-locked by another transaction, and an
\* x_lock request on a key S-locked by another transaction, is not granted
\* while the key stays so; it ends, with LockAbort, and only once more than
\* LOCK_MAX_TIME milliseconds have passed since the request.
C11_LockTimeout ==
    /\ [][\A t \in Txs :
            /\ LockWaiting(t) => LockWaiting(t)' \/ LockAborted(t)'
            /\ lpc[t].op # "idle" /\ LockAborted(t)' => lpc[t].elapsed > LOCK_MAX_TIME]_vars
    /\ \A t \in Txs : LockWaiting(t) ~> LockAborted(t)

\* C11 witness: an x_lock request for a key on which another transaction
\* holds an S lock has returned LockAbort, and so has an s_lock request for a
\* key on which another transaction holds the X lock.
C11_Witness ==
    \E t1 \in Txs : \E t2 \in Txs \ {t1} :
        /\ LockAborted(t1) /\ cmLocks[t1][lpc[t1].key] = "N"
        /\ cmLocks[t2][lpc[t1].key] = "X" /\ locks[lpc[t1].key] = -1
        /\ LockAborted(t2) /\ cmLocks[t2][lpc[t2].key] = "S"
        /\ cmLocks[t1][lpc[t2].key] = "S" /\ locks[lpc[t2].key] = 2

(***************************************************************************)
(* Properties of the log manager                                           *)
(***************************************************************************)
IsPrefix(s, t) == Len(s) <= Len(t) /\ \A i \in 1..Len(s) : s[i] = t[i]

\* C8: the iterator yields the records appended before its creation newest
\* first, each exactly once: what it has yielded so far is a prefix of the
\* reversed append sequence, and once next() has returned None it is all of it.
C8_LogOrdering ==
    iter.active =>
        /\ IsPrefix(iter.out, Reverse(iter.snap))
        /\ iter.done => iter.out = Reverse(iter.snap)

\* C8 witness: an iteration has ended after yielding MaxAppends records that
\* span three log blocks.
C8_Witness ==
    /\ iter.active /\ iter.done
    /\ Len(iter.out) = MaxAppends
    /\ Len(logfile) >= 3

\* C9: the k-th append on a LogMgr returns k, the LSN of the record appended.
C9_AppendReturnsLsn == \A k \in 1..Len(appendRet) : appendRet[k] = k


(***************************************************************************)
(* The buffer manager used on its own                                      *)
(***************************************************************************)
BufNext ==
    \/ \E t \in Txs : \E blk \in Blocks : BmPin(t, blk)
    \/ BmPinTry
    \/ BmPinAbort
    \/ \E t \in Txs : \E i \in Frames : BmUnpin(t, i)
    \/ \E t \in Txs : \E i \in Frames : \E o \in Offsets : \E v \in Vals \ {0} :
          BufModify(t, i, o, v)
    \/ \E t \in Txs : BmFlushAll(t)

SpecBuf == Init /\ [][BufNext]_vars

\* Threads that only pin and unpin, as buffermgr_test does. The thread inside
\* BufferMgr::pin goes on running: its sleep ends and the loop takes its next
\* pass.
WaitPin(t, blk) == nbufops < MaxWaitOps /\ BmPin(t, blk)

WaitUnpin(t, i) == nbufops < MaxWaitOps /\ BmUnpin(t, i)

BufWaitNext ==
    \/ \E t \in Txs : \E blk \in Blocks : WaitPin(t, blk)
    \/ BmPinTry
    \/ BmPinAbort
    \/ \E t \in Txs : \E i \in Frames : WaitUnpin(t, i)

SpecBufWait ==
    Init /\ [][BufWaitNext]_vars /\ WF_vars(BmPinTry) /\ WF_vars(BmPinAbort)

\* One thread that pins, writes and unpins, as buffer_test does; the calls of
\* pin and unpin are counted, the writes into a pinned frame are not.
ReplPin(blk) == nbufops < MaxBufOps /\ BmPin(1, blk)

ReplUnpin(i) == nbufops < MaxBufOps /\ BmUnpin(1, i)

ReplModify(i, o, v) ==
    /\ held[1][i] > 0
    /\ bufferpool' = [bufferpool EXCEPT
                        ![i] = set_modified([@ EXCEPT !.contents[o] = v], 1, 0)]
    /\ UNCHANGED <<num_available, datafile, bpc, bres, held, nbufops, walBad, filelen>>
    /\ UNCHANGED notBufVars

BufReplNext ==
    \/ \E blk \in Blocks : ReplPin(blk)
    \/ BmPinTry
    \/ BmPinAbort
    \/ \E i \in Frames : ReplUnpin(i)
    \/ \E i \in Frames : \E o \in Offsets : \E v \in Vals \ {0} : ReplModify(i, o, v)

SpecBufRepl == Init /\ [][BufReplNext]_vars

\* C10: a pin of a block that no frame holds, made while every frame is
\* pinned, ends: it returns BufferAbort, and only once more than MAX_TIME
\* milliseconds have passed since the call; no frame is given to it.
C10_BufferSaturationAbort ==
    /\ [](bpc.op = "idle" /\ bpc.t \in Txs /\ bres[bpc.t] = "BufferAbort"
            => bpc.elapsed > MAX_TIME /\ bpc.sat)
    /\ (bpc.op = "pin" /\ bpc.sat)
          ~> (bpc.op = "idle" /\ bpc.t \in Txs /\ bres[bpc.t] = "BufferAbort")

C10_Witness ==
    \E t \in Txs :
        /\ bpc.op = "idle" /\ bpc.t = t /\ bres[t] = "BufferAbort"
        /\ bpc.elapsed > MAX_TIME
        /\ bpc.sat /\ Saturated(bpc.blk)
        /\ \A i \in Frames : held[t][i] = 0

\* C12: num_available is the number of frames whose pin count is 0, and it
\* lies in 0..NumBuffs, after every pin (granted or aborted) and every unpin
\* of a pinned frame.
C12_AvailableCounter ==
    /\ num_available = Cardinality({i \in Frames : bufferpool[i].pins = 0})
    /\ num_available \in 0..NumBuffs

\* C12 witness: a pin has ended in BufferAbort on a full pool and an unpin
\* after it has made one frame available again, another staying pinned.
C12_Witness ==
    /\ bpc.op = "idle" /\ bpc.sat /\ bpc.t \in Txs /\ bres[bpc.t] = "BufferAbort"
    /\ \E t \in Txs : bres[t] = "Ok" /\ \E i \in Frames : held[t][i] > 0
    /\ num_available = 1
    /\ \E i \in Frames : bufferpool[i].pins = 0 /\ bufferpool[i].blk # -1

\* C13: a pass of pin for a block that a frame holds returns Ok with that
\* frame: its pin count goes up by one, its block, contents and modification
\* marks stay, no other frame and no file changes, whether or not every frame
\* is pinned, and num_available goes down by one exactly when the frame's pin
\* count was 0.
C13_PinExistingBlock ==
    [][(bpc.op = "pin" /\ bpc' # bpc /\ \E i \in Frames : bufferpool[i].blk = bpc.blk) =>
          LET e == CHOOSE i \in Frames : bufferpool[i].blk = bpc.blk
          IN  /\ bpc'.op = "idle" /\ bres'[bpc.t] = "Ok"
              /\ held' = [held EXCEPT ![bpc.t][e] = @ + 1]
              /\ bufferpool' = [bufferpool EXCEPT ![e].pins = @ + 1]
              /\ num_available' =
                    IF bufferpool[e].pins = 0 THEN num_available - 1 ELSE num_available
              /\ datafile' = datafile /\ logfile' = logfile]_vars

\* C13 witness: with every frame pinned, a pin of a block that a frame holds
\* was granted on that frame, whose contents differ from the block on disk.
C13_Witness ==
    /\ bpc.op = "idle" /\ bpc.t \in Txs /\ bres[bpc.t] = "Ok"
    /\ num_available = 0 /\ \A i \in Frames : is_pinned(bufferpool[i])
    /\ \E e \in Frames :
          /\ bufferpool[e].blk = bpc.blk /\ bufferpool[e].pins >= 2
          /\ held[bpc.t][e] >= 1
          /\ bufferpool[e].contents # datafile[bpc.blk]

\* C14: a pass of pin that gives an unpinned, modified frame to a new block
\* first writes the frame's page to the block the frame held: after the pass
\* that block holds on disk what the frame held in memory, and the frame holds
\* the new block as read from disk. A frame that is not marked modified
\* always agrees with its block on disk, so a later pin of the old block reads
\* the modified values.
C14_ReplacementWritesBack ==
    /\ [][(bpc.op = "pin" /\ bpc' # bpc
             /\ (\A i \in Frames : bufferpool[i].blk # bpc.blk)
             /\ (\E k \in Frames : bufferpool[k].pins = 0)) =>
             LET c == CHOOSE i \in Frames :
                         /\ bufferpool[i].pins = 0
                         /\ \A j \in Frames : j < i => bufferpool[j].pins > 0
                 old == bufferpool[c]
             IN  /\ bufferpool'[c].blk = bpc.blk /\ bufferpool'[c].txnum = -1
                 /\ bufferpool'[c].contents = datafile[bpc.blk]
                 /\ old.txnum >= 0 => datafile'[old.blk] = old.contents]_vars
    /\ [](\A i \in Frames :
            bufferpool[i].blk # -1 /\ bufferpool[i].txnum = -1 =>
                bufferpool[i].contents = datafile[bufferpool[i].blk])

\* C14 witness: a block was modified in a frame, the frame was given to
\* another block, and a later pin of the first block has read the modified
\* values from disk into another frame, one that was never modified.
C14_Witness ==
    \E i \in Frames : \E j \in Frames \ {i} :
        /\ bpc.op = "idle" /\ bpc.t \in Txs /\ bres[bpc.t] = "Ok"
        /\ bufferpool[j].blk = bpc.blk /\ bufferpool[j].txnum = -1
        /\ bufferpool[j].lsn = -1 /\ bufferpool[i].lsn >= 0
        /\ bufferpool[j].contents # ZeroPage
        /\ bufferpool[j].contents = datafile[bpc.blk]
        /\ bufferpool[i].blk \notin {-1, bpc.blk} /\ bufferpool[i].txnum = -1

\* C17: flush_all returns Ok once the frames modified by txnum are flushed,
\* also when there is none, and an error only when a flush has failed (here
\* BlockNotFound); no call of the buffer manager has returned LockFailed.
C17_FlushAllReturnsOk ==
    \A t \in Txs : bres[t] \in {"none", "Ok", "BufferAbort", "BlockNotFound"}

Returned(s, op) == tcall[s].op = op /\ tcall[s].res \notin {"none", "panic", "hang"}

\* The call op of thread s is over: it returned, or it unwound in a panic
Over(s, op) == tcall[s].op = op /\ tcall[s].res \notin {"none", "hang"}

\* A record op of transaction txnum is in the log file
InLogFile(op, txnum) ==
    \E i \in 1..Len(appended) :
        /\ appended[i].op = op /\ appended[i].tx = txnum
        /\ appended[i].id \in OnDisk(logfile)

CurVal(blk, off) ==
    IF find_existing_buffer(bufferpool, blk) # 0
    THEN bufferpool[find_existing_buffer(bufferpool, blk)].contents[off]
    ELSE datafile[blk][off]

C4_RecoveryRestores ==
    \A s \in Txs :
        epoch > 0 /\ Over(s, "recover") =>
            \A b \in Blocks : \A o \in Offsets : datafile[b][o] = committedVal[b][o]

RECURSIVE PinsTaken(_, _)
\* The pins the transactions of threads 1..n have taken on blk and not given back
PinsTaken(n, blk) == IF n = 0 THEN 0 ELSE txPinned[n][blk] + PinsTaken(n - 1, blk)

\* C15: the pins a transaction's BufferList records for each block are the
\* pins the transaction has taken on it less those it has given back, the
\* block's buffer is retrievable while one remains, and each frame's pin count
\* is the number of pins the transactions have on its block.
C15_PinBookkeeping ==
    (\A s \in Txs : txs[s].st \in {"none", "active"}) =>
        /\ \A s \in Txs : \A b \in Blocks :
              /\ mybuffers[s].pins[b] = txPinned[s][b]
              /\ txPinned[s][b] > 0 => mybuffers[s].buffers[b] # 0
        /\ \A i \in Frames :
              bufferpool[i].blk # -1 => bufferpool[i].pins = PinsTaken(NumTx, bufferpool[i].blk)

Weaker(old, new) ==
    \/ old = -1 /\ new # -1
    \/ old > 0 /\ new >= 0 /\ new < old

\* C6: no call other than commit() and rollback() releases a lock: over every
\* step made by any other Transaction call, each key a transaction has
\* recorded stays recorded and its lock-table entry is not removed, counted
\* down or made non-exclusive.
C6_StrictTwoPhase ==
    [][(epoch' = epoch /\ tcall'[actor'].op \notin {"commit", "rollback"}) =>
          \A s \in Txs : \A key \in Keys :
              cmLocks[s][key] # "N" =>
                  cmLocks'[s][key] # "N" /\ ~Weaker(locks[key], locks'[key])]_vars

\* C6 witness: a request for the X lock of the end-of-file key was refused
\* while another transaction held the key; both transactions still hold the
\* S locks they took.
C6_Witness ==
    \E s1 \in Txs : \E s2 \in Txs \ {s1} :
        /\ tcall[s2].op = "append" /\ tcall[s2].res = "LockAbort"
        /\ cmLocks[s1][DUMMY(END_OF_FILE)] = "S"
        /\ cmLocks[s2][DUMMY(END_OF_FILE)] = "S"
        /\ locks[DUMMY(END_OF_FILE)] = 2

\* C7: each Transaction constructed in a process gets the txnum one above the
\* txnum of the one constructed before it, so no two transactions share one.
C7_TxNumbering ==
    /\ \A i \in 2..Len(created) : created[i] = created[i - 1] + 1
    /\ \A s1 \in Txs : \A s2 \in Txs \ {s1} :
          txs[s1].st # "none" /\ txs[s2].st # "none" => txs[s1].txnum # txs[s2].txnum

\* C7 witness: every thread has constructed a transaction
C7_Witness ==
    /\ Len(created) = NumTx
    /\ \A s \in Txs : txs[s].st # "none" /\ txs[s].txnum \in 1..NumTx

(***************************************************************************)
(* Properties of pages                                                     *)
(***************************************************************************)
\* the number of bytes the value of the setter call c is encoded in
EncodedLen(c) ==
    CASE c.kind = "i32" -> I32Size
      [] c.kind = "bytes" -> I32Size + Len(c.b)
      [] OTHER -> I32Size + Len(as_bytes(c.b))

\* the encoding of the value of the setter call c lies within a page of len bytes
Fits(c, len) == c.off >= 0 /\ c.off + EncodedLen(c) <= len

\* the four bytes of p after offset o are the i32 n, most significant byte first
BigEndianAt(p, o, n) ==
    /\ p[o + 1] = (n \div 16777216) % 256
    /\ p[o + 2] * 65536 + p[o + 3] * 256 + p[o + 4] = n % 16777216

\* C18: a setter whose value fits within the page at its offset succeeds,
\* leaves the page's length and every byte outside the encoding unchanged and
\* stores the i32 (or the length prefix) big-endian; the getter of the same
\* type at the same offset, called next, returns the value that was set.
C18_PageRoundTrip ==
    /\ (pageCall.op = "set" /\ Fits(pageCall, Len(bbBefore))) =>
          /\ pageCall.res.tag = "Ok"
          /\ Len(bb) = Len(bbBefore)
          /\ \A k \in 1..Len(bb) :
                (k <= pageCall.off \/ k > pageCall.off + EncodedLen(pageCall)) =>
                    bb[k] = bbBefore[k]
          /\ BigEndianAt(bb, pageCall.off,
                         IF pageCall.kind = "i32" THEN pageCall.i
                         ELSE EncodedLen(pageCall) - I32Size)
    /\ (/\ pageCall.op = "get" /\ pagePrevCall.op = "set"
        /\ pageCall.kind = pagePrevCall.kind /\ pageCall.off = pagePrevCall.off
        /\ Fits(pagePrevCall, Len(bb))) =>
          pageCall.res = PageRes("Ok", pagePrevCall.i, pagePrevCall.b)

\* C18 witness: a two-byte string set at offset 0 of a six-byte page of ones
\* (its encoding ends at the last byte) was read back; and a negative i32 set
\* at offset 1 was read back with the bytes around it unchanged
C18_Witness ==
    /\ pageCall.op = "get" /\ pagePrevCall.op = "set" /\ pageCall.off = pagePrevCall.off
    /\ pageCall.res.tag = "Ok"
    /\ \/ /\ pageCall.kind = "string" /\ pagePrevCall.kind = "string"
          /\ pageCall.off = 0 /\ pageCall.res.b = <<233>>
          /\ bb = <<0, 0, 0, 2, 195, 169>>
       \/ /\ pageCall.kind = "i32" /\ pagePrevCall.kind = "i32"
          /\ pageCall.off = 1 /\ pageCall.res.i = -2
          /\ bb = <<255, 255, 255, 255, 254, 255>>

\* the number of bytes the call c needs from its offset in the page p (a
\* usize: below 0 for a length prefix that is cast from a negative i32)
Needed(c, p) ==
    IF c.op = "set" THEN EncodedLen(c)
    ELSE IF c.kind = "i32" \/ c.off < 0 \/ c.off + I32Size > Len(p) THEN I32Size
    ELSE LET n == from_be_bytes(SubSeq(p, c.off + 1, c.off + I32Size))
         IN  IF n < 0 THEN n ELSE I32Size + n

\* C19: an accessor whose offset plus needed byte count exceeds the page's
\* length fails with BufferSizeExceeded; no failed accessor changes a byte, no
\* accessor changes the page's length; an access that ends exactly at the
\* last byte is not refused.
C19_PageBounds ==
    /\ pageCall.op # "none" =>
          LET needed == Needed(pageCall, bbBefore)
              exceeds == pageCall.off < 0 \/ needed < 0
                            \/ pageCall.off + needed > Len(bbBefore)
          IN  /\ Len(bb) = Len(bbBefore)
              /\ exceeds => pageCall.res.tag = "BufferSizeExceeded" /\ bb = bbBefore
              /\ (pageCall.off >= 0 /\ needed >= 0
                      /\ pageCall.off + needed = Len(bbBefore)) =>
                    pageCall.res.tag \notin {"BufferSizeExceeded", "panic"}

(***************************************************************************)
(* Properties of the file manager                                          *)
(***************************************************************************)
\* the bytes of block blk in the file
FileBlock(file, blk) == SubSeq(file, blk * FmBlockSize + 1, (blk + 1) * FmBlockSize)

\* C20: a read fills the page with the bytes of the page last written to that
\* block, whatever was read, written or appended elsewhere in between, and
\* with zeroes when the block was never written; the file holds every
\* written page at its block's offset.
C20_FileRoundTrip ==
    /\ fmCall.op = "read" =>
          fmCall.q = IF fileWritten[fmCall.blk] # <<>> THEN fileWritten[fmCall.blk]
                     ELSE Zeroes(FmBlockSize)
    /\ \A blk \in FileBlks :
          fileWritten[blk] # <<>> => FileBlock(fileBytes, blk) = fileWritten[blk]

\* C20 witness: block 2 was written past the end of the file, block 0 was
\* written too, block 1 never, and block 2 has been read back
C20_Witness ==
    /\ fmCall.op = "read" /\ fmCall.blk = 2
    /\ fmCall.q = [k \in 1..FmBlockSize |-> 10 + k]
    /\ fileWritten[0] = [k \in 1..FmBlockSize |-> 1]
    /\ fileWritten[1] = <<>>
    /\ Len(fileBytes) = 3 * FmBlockSize

(***************************************************************************)
(* Properties of log records                                               *)
(***************************************************************************)
\* C21: the record that create_log_record makes of the bytes the iterator
\* returns has the kind, txnum, file name, block number, offset and old value
\* that write_to_log was given (a CHECKPOINT has txnum -1).
C21_LogRecordRoundTrip == recPc = "read" => recRead = recWritten

(***************************************************************************)
(* Properties of ConcurrencyMgr::new                                       *)
(***************************************************************************)
\* C22: every ConcurrencyMgr refers to the one LockTable held in SINGLETON,
\* and only one LockTable is ever created; so a request granted through one
\* manager finds no conflicting lock recorded by any other manager: an S lock
\* is not granted while another records X, an X lock not while another
\* records S or X.
C22_SharedLockTable ==
    /\ Len(tables) <= 1
    /\ \A t \in Txs : cmTable[t] # 0 => cmTable[t] = SINGLETON /\ SINGLETON = 1
    /\ (cmLast.op = "s_lock" /\ cmLast.res = "Ok") =>
          \A t \in Txs \ {cmLast.t} : cmHeld[t][cmLast.key] # "X"
    /\ (cmLast.op = "x_lock" /\ cmLast.res = "Ok") =>
          \A t \in Txs \ {cmLast.t} : cmHeld[t][cmLast.key] = "N"
    /\ \A key \in CmKeys : \A t1 \in Txs : \A t2 \in Txs \ {t1} :
          cmHeld[t1][key] = "X" => cmHeld[t2][key] = "N"

\* C22 witness: two managers exist; one records X for the block, and the
\* other's request for an S lock on it has just ended with LockAbort
C22_Witness ==
    \E t1 \in Txs : \E t2 \in Txs \ {t1} :
        /\ cmTable[t1] # 0 /\ cmTable[t2] # 0
        /\ cmHeld[t1][BID(0)] = "X"
        /\ cmLast = [t |-> t2, op |-> "s_lock", file |-> NoFile, had |-> "N", key |-> BID(0), res |-> "LockAbort"]

(***************************************************************************)
(* Properties of the lock table's entries                                  *)
(***************************************************************************)
\* every thread is outside its ConcurrencyMgr's methods
AllIdle == \A t \in Txs : lpc[t].op = "idle"

\* the number of transactions whose ConcurrencyMgr records the lock type ty for the key
Recorded(key, ty) == Cardinality({t \in Txs : cmLocks[t][key] = ty})

\* C23: each unlock of release takes one off an entry greater than 1 and
\* removes any other entry, leaving the entries of other keys alone; so a key
\* that no transaction records any more has no entry.
C23_Unlock ==
    /\ [][\A t \in Txs : \A key \in Keys :
            (/\ lpc[t].op = "release" /\ lpc'[t].op = "release"
             /\ key \in lpc[t].rem /\ key \notin lpc'[t].rem) =>
                /\ locks'[key] = IF locks[key] > 1 THEN locks[key] - 1 ELSE 0
                /\ \A other \in Keys \ {key} : locks'[other] = locks[other]]_vars
    /\ [](AllIdle => \A key \in Keys :
                        (Recorded(key, "S") = 0 /\ Recorded(key, "X") = 0) => locks[key] = 0)

\* C24: between calls, the entry of a key is -1 exactly when one transaction
\* records X for it, n > 0 exactly when n transactions record S and none
\* records X, and absent exactly when no transaction records the key.
C24_TableAgreesWithHolders ==
    AllIdle => \A key \in Keys :
        /\ locks[key] = -1 <=> Recorded(key, "X") = 1
        /\ locks[key] > 0 <=>
              (Recorded(key, "X") = 0 /\ Recorded(key, "S") = locks[key] /\ locks[key] > 0)
        /\ locks[key] = 0 <=> (Recorded(key, "X") = 0 /\ Recorded(key, "S") = 0)
        /\ locks[key] >= -1

(***************************************************************************)
(* Properties of waiting requests                                          *)
(***************************************************************************)
\* thread t has slept at least once inside LockTable::s_lock or x_lock and
\* has not returned
LockSleeping(t) == lpc[t].op \in {"s_lock", "x_lock"} /\ lpc[t].elapsed > 0

\* C25: a thread that sleeps inside s_lock or x_lock does not keep the shared
\* lock table to itself: a release() another transaction has begun can unlock
\* its next key meanwhile.
C25_WaiterLeavesTableFree ==
    \A t \in Txs : LockSleeping(t) =>
        /\ ltMutex # t
        /\ \A other \in Txs \ {t} :
              (lpc[other].op = "release" /\ lpc[other].rem # {}) =>
                  ENABLED CmReleaseKey(other)

\* C26: while a thread sleeps inside BufferMgr::pin, a thread that holds a
\* pinned frame can unpin it on the same buffer manager.
C26_WaitingPinAllowsUnpin ==
    (bpc.op = "pin" /\ bpc.elapsed > 0 /\ nbufops < MaxBufOps) =>
        \A t \in Txs \ {bpc.t} : \A i \in Frames :
            held[t][i] > 0 => ENABLED BmUnpin(t, i)

\* the strongest lock a transaction's size/append calls got on any file's end
EofStrongest(t) ==
    IF \E f \in CmFileNames : cmEof[t][f] = "X" THEN "X"
    ELSE IF \E f \in CmFileNames : cmEof[t][f] = "S" THEN "S" ELSE "N"

\* the end-of-file key is locked by size and append only
EofBySizeAppendOnly ==
    \A t \in Txs : cmHeld[t][DUMMY(END_OF_FILE)] = EofStrongest(t)

\* C27: the end-of-file key of distinct files is distinct, and a size(g) or
\* append(g) ends with LockAbort only when another transaction holds a
\* conflicting end-of-file lock on the same file g.
C27_EndOfFileLockPerFile ==
    /\ \A f, g \in CmFileNames : f # g => end_of_file_key(f) # end_of_file_key(g)
    /\ (EofBySizeAppendOnly /\ cmLast.op \in {"size", "append"} /\ cmLast.res = "LockAbort") =>
          \E other \in Txs \ {cmLast.t} :
              cmEof[other][cmLast.file] \in
                  (IF cmLast.op = "size" THEN {"X"} ELSE {"S", "X"})

\* a call of ConcurrencyMgr::s_lock, x_lock or release has just been made
CmCalled(ops) == ncmops' # ncmops /\ cmLast'.op \in ops

\* the entry of the last call's key in the table of the calling manager
CmEntry(tbls) == tbls[cmTable[cmLast'.t]][cmLast'.key]

\* C28: ConcurrencyMgr does not lock a key again.  An s_lock on a key the
\* manager has recorded leaves the table alone, and one on a key it has not
\* recorded raises the entry by 1 at most; an x_lock on a key recorded X leaves
\* the table alone; an x_lock on a key recorded S takes no further S (the
\* entry stays or becomes -1); release unlocks each recorded key once and no
\* other key.
C28_NoRelock ==
    [][/\ CmCalled({"s_lock", "size"}) =>
             /\ cmHeld[cmLast'.t][cmLast'.key] # "N" => tables' = tables
             /\ cmHeld[cmLast'.t][cmLast'.key] = "N" =>
                   CmEntry(tables') \in {CmEntry(tables), CmEntry(tables) + 1}
       /\ CmCalled({"x_lock", "append"}) =>
             /\ cmHeld[cmLast'.t][cmLast'.key] = "X" => tables' = tables
             /\ cmHeld[cmLast'.t][cmLast'.key] = "S" =>
                   CmEntry(tables') \in {CmEntry(tables), -1}
       /\ CmCalled({"release"}) =>
             \A i \in 1..Len(tables) : \A k \in CmKeys :
                 tables'[i][k] =
                     IF i = cmTable[cmLast'.t] /\ cmHeld[cmLast'.t][k] # "N"
                     THEN unlock(tables[i], k)[k]
                     ELSE tables[i][k]
      ]_vars

\* a second s_lock on a key recorded S has returned Ok with the entry still 1
C28_Witness ==
    /\ cmLast.op = "s_lock" /\ cmLast.had = "S" /\ cmLast.res = "Ok"
    /\ cmHeld[cmLast.t][cmLast.key] = "S"
    /\ tables[cmTable[cmLast.t]][cmLast.key] = 1

(***************************************************************************)
(* Properties of Transaction::set_i32                                      *)
(***************************************************************************)
\* thread s has just made the Transaction call op
TxCalled(s, op) == actor' = s /\ ntxops' = ntxops + 1 /\ tcall'[s].op = op

\* the step leaves the page of every frame but i as it was, and of frame i
\* every offset but off
OnlyChanges(i, off) ==
    \A j \in Frames : \A o \in Offsets :
        (j # i \/ o # off) => bufferpool'[j].contents[o] = bufferpool[j].contents[o]

UnloggedSet(s) ==
    /\ TxCalled(s, "set_i32")
    /\ \/ ~txs[s].unlogged /\ txs'[s].unlogged
       \/ tcall'[s].res = "Ok" /\ Len(appended') = Len(appended)

\* C30: a set_i32 with ok_to_log = false appends nothing to the log and
\* leaves the log manager (latest_lsn with it) and the log file as they were;
\* it writes the value to the page of one frame, at one offset, marks that
\* frame modified by the transaction and leaves the lsn of every frame as it
\* was.
C30_UndoWritesNoLogRecord ==
    [][\A s \in Txs :
          UnloggedSet(s) =>
              /\ appended' = appended
              /\ lm' = lm
              /\ logfile' = logfile
              /\ tcall'[s].res = "Ok"
              /\ \A j \in Frames : bufferpool'[j].lsn = bufferpool[j].lsn
              /\ \E i \in Frames : \E off \in Offsets :
                    /\ bufferpool[i].blk \in Blocks
                    /\ mybuffers[s].buffers[bufferpool[i].blk] = i
                    /\ OnlyChanges(i, off)
                    /\ bufferpool'[i].contents[off] = txWrote'[s][bufferpool[i].blk][off]
                    /\ bufferpool'[i].contents[off] \in Vals \ {0}
                    /\ bufferpool'[i].txnum = txs[s].txnum
      ]_vars

\* an unlogged set_i32 has returned Ok on a frame whose lsn a logged call had
\* set: the page holds the value, the frame is marked with the txnum and
\* keeps its lsn, and the last record of the log is the logged call's
C30_Witness ==
    \E s \in Txs : \E i \in Frames : \E off \in Offsets :
        /\ actor = s /\ tcall[s] = [op |-> "set_i32", res |-> "Ok", val |-> 0]
        /\ txs[s].unlogged
        /\ bufferpool[i].txnum = txs[s].txnum
        /\ bufferpool[i].lsn >= 0
        /\ bufferpool[i].contents[off] = 1
        /\ appended # <<>> /\ appended[Len(appended)].op = "SETI32"
        /\ appended[Len(appended)].val = 0

(***************************************************************************)
(* Properties of the recovery manager's scans                              *)
(***************************************************************************)
\* the records of the scanned log, newest first, as the iterator gives them
ScanRecs == Reverse(rmLog)

\* C31: do_recover calls undo only on an update record (SETI32 or SETSTRING,
\* never a START record) whose transaction has no COMMIT or ROLLBACK record
\* later in the log, and on no record older than the newest CHECKPOINT.
C31_RecoverUndoesUpdatesOnly ==
    (rmCall.op = "do_recover" /\ rmCall.undo # 0) =>
        /\ ScanRecs[rmCall.undo].op \in {"SETI32", "SETSTRING"}
        /\ \A j \in 1..(rmCall.undo - 1) :
              /\ ScanRecs[j].op # "CHECKPOINT"
              /\ ScanRecs[j].op \in {"COMMIT", "ROLLBACK"} =>
                    ScanRecs[j].tx # ScanRecs[rmCall.undo].tx

\* C32: do_rollback of transaction T calls undo only on a record of T that
\* is not its START record, and the first record it calls undo on is T's
\* newest; records of other transactions are passed over.  When it calls undo
\* on nothing, T's newest record is its START record or T has no record.
C32_RollbackUndoesOwnOnly ==
    rmCall.op = "do_rollback" =>
        LET own == {j \in 1..Len(ScanRecs) : ScanRecs[j].tx = rmCall.txnum}
        IN  /\ rmCall.undo # 0 =>
                  /\ ScanRecs[rmCall.undo].tx = rmCall.txnum
                  /\ ScanRecs[rmCall.undo].op # "START"
                  /\ \A j \in own : rmCall.undo <= j
            /\ rmCall.undo = 0 =>
                  \A j \in own : (\A k \in own : j <= k) => ScanRecs[j].op = "START"

\* do_rollback of T has passed over a newer SETI32 record of another
\* transaction and called undo on T's own SETI32 record
C32_Witness ==
    /\ rmCall.op = "do_rollback" /\ rmCall.undo > 1
    /\ ScanRecs[1].op = "SETI32" /\ ScanRecs[1].tx # rmCall.txnum
    /\ ScanRecs[rmCall.undo].op = "SETI32" /\ ScanRecs[rmCall.undo].tx = rmCall.txnum

(***************************************************************************)
(* Properties of the log manager's flush and block layout                  *)
(***************************************************************************)
\* the step is a call of LogMgr::flush with the argument lsn
FlushCalled(lsn) ==
    /\ nflush' = nflush + 1
    /\ lm' = flush(LogState, lsn).lm
    /\ logfile' = flush(LogState, lsn).file

\* C33: flush(lsn) with lsn >= last_saved_lsn (lsn equal to it included)
\* writes the log page to the current block and makes last_saved_lsn equal to
\* latest_lsn; with lsn < last_saved_lsn it changes nothing; last_saved_lsn
\* never exceeds latest_lsn.
C33_FlushWhenNotSaved ==
    /\ [][\A lsn \in 0..lm.latest_lsn : FlushCalled(lsn) =>
             /\ lsn >= lm.last_saved_lsn =>
                   /\ lm'.last_saved_lsn = lm.latest_lsn
                   /\ logfile'[lm.current_blk + 1] = lm.logpage
             /\ lsn < lm.last_saved_lsn => (lm' = lm /\ logfile' = logfile)
       ]_vars
    /\ [](lm.last_saved_lsn <= lm.latest_lsn)

\* the page of log block b: the log page for the current block, else the file's
LogBlockPage(b) == IF b = lm.current_blk THEN lm.logpage ELSE logfile[b + 1]

LogBlocks == 0..(Len(logfile) - 1)

\* the records of a log page from its boundary on
LiveEnts(p) == {e \in p.ents : e.pos >= p.boundary}

EntEnd(e) == e.pos + I32Size + RecLen(e.rec)

\* the records from the boundary on lie end to end up to the end of the
\* block, the newest lowest
LaidOut(p) ==
    /\ I32Size <= p.boundary /\ p.boundary <= BlockSize
    /\ IF LiveEnts(p) = {} THEN p.boundary = BlockSize
       ELSE \E e \in LiveEnts(p) : e.pos = p.boundary
    /\ \A e \in LiveEnts(p) :
          \/ EntEnd(e) = BlockSize
          \/ \E e2 \in LiveEnts(p) : e2.pos = EntEnd(e) /\ e2.rec.id < e.rec.id

\* C34: every log block has 4 <= boundary <= blocksize and holds from its
\* boundary on exactly the records appended to it, end to end, newest first;
\* every record appended is in one block, older blocks holding older records.
\* An append that finds no room writes the current block to the file and puts
\* the record at the high end of a new block.
C34_LogBlockLayout ==
    /\ [](/\ \A b \in LogBlocks : LaidOut(LogBlockPage(b))
          /\ \A n \in 1..Len(appended) :
                \E b \in LogBlocks :
                    /\ \E e \in LiveEnts(LogBlockPage(b)) : e.rec = appended[n]
                    /\ \A b2 \in LogBlocks : \A e2 \in LiveEnts(LogBlockPage(b2)) :
                          /\ e2.rec.id \in 1..Len(appended)
                          /\ (b2 < b => e2.rec.id < n)
                          /\ (e2.rec = appended[n] => b2 = b))
    /\ [][(Len(appended') = Len(appended) + 1
            /\ NoRoom(lm.logpage.boundary,
                      RecLen(appended'[Len(appended')]) + I32Size)) =>
              /\ Len(logfile') = Len(logfile) + 1
              /\ logfile'[lm.current_blk + 1] = lm.logpage
              /\ lm'.current_blk = Len(logfile)
              /\ \E e \in LiveEnts(lm'.logpage) :
                    e.rec = appended'[Len(appended')] /\ EntEnd(e) = BlockSize
       ]_vars

\* C35: whatever is appended between the steps of an iterator, also when an
\* append fills the current block and starts a new one, the i-th record the
\* iterator yields is the i-th newest of the records the log held when the
\* iterator was created: none is skipped, repeated or newer than the iterator,
\* and when next() has returned None all of them have been yielded.
C35_IteratorSnapshot ==
    iter.active =>
        /\ Len(iter.out) <= Len(iter.snap)
        /\ \A i \in 1..Len(iter.out) :
              /\ iter.out[i].id = Len(iter.snap) + 1 - i
              /\ iter.out[i] = appended[iter.out[i].id]
        /\ iter.done => Len(iter.out) = Len(iter.snap)

\* an iterator is between two steps, with records still to yield from an
\* older block, and two records have been appended since it was created, the
\* log having grown to three blocks or more
C35_Witness ==
    /\ iter.active /\ ~iter.done
    /\ Len(iter.out) >= 1 /\ Len(iter.out) < Len(iter.snap)
    /\ Len(appended) >= Len(iter.snap) + 2
    /\ Len(logfile) >= 3 /\ lm.current_blk > iter.blk

(***************************************************************************)
(* Properties of the frames of the buffer pool                             *)
(***************************************************************************)
\* C36: a step of pin, unpin or flush_all leaves the block of every frame
\* whose pin count is above 0 as it is and does not reload its page: a
\* frame's block changes only when its pin count is 0, and the page of a
\* pinned frame changes only by a write of a thread that holds a pin on it.
C36_PinnedFramesStay ==
    [][\A i \in Frames : bufferpool[i].pins > 0 =>
          /\ bufferpool'[i].blk = bufferpool[i].blk
          /\ bufferpool'[i].contents # bufferpool[i].contents =>
                \E t \in Txs : \E o \in Offsets : \E v \in Vals : BufModify(t, i, o, v)
      ]_vars

\* every frame is pinned, by two threads, one frame holds a modified page,
\* and a pin of a further block has ended in BufferAbort
C36_Witness ==
    /\ \A i \in Frames : bufferpool[i].pins > 0
    /\ \E i \in Frames : bufferpool[i].txnum >= 0 /\ bufferpool[i].contents # ZeroPage
    /\ bpc.op = "idle" /\ bpc.t \in Txs /\ bres[bpc.t] = "BufferAbort"
    /\ \A i \in Frames : bufferpool[i].blk # bpc.blk
    /\ \E t \in Txs \ {bpc.t} : \E i \in Frames : held[t][i] > 0

\* C37: no two frames are assigned the same block, so the threads that pin a
\* block hold pins on one and the same frame.
C37_OneFramePerBlock ==
    \A i \in Frames : \A j \in Frames :
        (i # j /\ bufferpool[i].blk # -1) => bufferpool[i].blk # bufferpool[j].blk

\* two threads hold a pin on the frame of one block, which one of them has
\* modified, and another frame holds another block
C37_Witness ==
    \E i \in Frames : \E t1 \in Txs : \E t2 \in Txs \ {t1} :
        /\ held[t1][i] > 0 /\ held[t2][i] > 0
        /\ bufferpool[i].pins = 2 /\ bufferpool[i].txnum = t1
        /\ bufferpool[i].contents # ZeroPage
        /\ \E j \in Frames \ {i} : bufferpool[j].blk \notin {-1, bufferpool[i].blk}

\* C38: the value a get_i32 of (blk, off) returns is the value the reading
\* transaction wrote there last, or, when it has written none, the value last
\* written there by a committed transaction (the initial value when there is
\* none): never a value of another transaction that has not committed.
C38_NoDirtyReads ==
    [][\A s \in Txs : \A blk \in Blocks : \A off \in Offsets :
          TxGetI32(s, blk, off) /\ tcall'[s].res = "Ok" =>
              tcall'[s].val = IF txWrote[s][blk][off] # -1 THEN txWrote[s][blk][off]
                              ELSE committedVal[blk][off]]_vars

\* A transaction has read the committed value of a block it shares with
\* another transaction, which holds a value of its own, not committed, in
\* another block; and a read of that other block is refused.
C38_Witness ==
    \E s \in Txs : \E o \in Txs \ {s} : \E b \in Blocks \ {SharedBlk} : \E off \in Offsets :
        /\ tcall[s] = [op |-> "get_i32", res |-> "Ok", val |-> committedVal[SharedBlk][off]]
        /\ actor = s
        /\ cmLocks[s][BID(SharedBlk)] = "S"
        /\ txWrote[o][b][off] # -1
        /\ txWrote[o][b][off] # committedVal[b][off]
        /\ cmLocks[o][BID(b)] = "X"

\* C39: a commit, rollback or recover call returns, with Ok or with an error:
\* it neither blocks for ever nor panics, also when the transaction has
\* modified a frame that the call has to flush.
C39_RecoveryCallsReturn ==
    \A s \in Txs :
        tcall[s].op \in {"commit", "rollback", "recover"} => tcall[s].res \notin Relock

\* C40: FileMgr::read changes only the page: the bytes of the file and its
\* length in blocks are after the read what they were before it, also for a
\* block at or past the end of the file, so the next append returns the block
\* number it would have returned without the read.
C40_ReadLeavesFile ==
    [][\A blk \in FileBlks :
          FmRead(blk) =>
              /\ fileBytes' = fileBytes
              /\ fm_length(fileBytes') = fm_length(fileBytes)
              /\ fm_append(fileBytes').blk = fm_append(fileBytes).blk]_vars
====
